---------------------------- MODULE Spec2Model ----------------------------
(***************************************************************************)
(* A state-machine model of the yggdrasil-go authentication server: the    *)
(* token cache, the account and texture tables, the join/has-joined        *)
(* session cache, the per-key rate limiters, the registration tokens and   *)
(* the upstream federation circuit breaker.  Every request handler is one  *)
(* atomic action.  Time is the wall clock in whole seconds.                *)
(***************************************************************************)
EXTENDS Integers, Sequences, FiniteSets, TLC

VARIABLES
    now,            \* wall clock (time.Now()), seconds
    users,          \* table "users": id -> row
    textures,       \* table "textures": hash -> [used]
    texMaps,        \* heap of Go maps Profile.Textures: ref -> [slot -> hash]
    tokens,         \* tokenStore.tokenCache: accessToken -> Token
    nextTok,        \* number of access tokens minted so far (RandomUUID never repeats)
    sessions,       \* sessionStore.sessionCache: serverId -> AuthenticationSession
    limiters,       \* userServiceImpl.limitLruCache: key -> rate.Limiter
    regTokens,      \* regTokenServiceImpl.tokenCache: accessToken -> RegToken
    nextReg,        \* number of registration tokens minted so far
    smtpEnabled,    \* regTokenServiceImpl.smtpEnabled
    ups,            \* upstreamService.upstreams: id -> UpstreamServiceState
    requestCounter, \* upstreamService.requestCounter
    pool,           \* upstreamService.pool: [ActiveCount, TotalRequests]
    keyPairCh,      \* userServiceImpl.keyPairCh: the keypairs queued by genKeyPair
    profileKeyCache,\* userServiceImpl.profileKeyCache: account id -> keypair
    nextKey,        \* number of keypairs generated so far
    cachedPubKey,   \* homeRouterImpl.cachedPubKey: the answer kept by PublicKeys
    inflight,       \* requests being served: slot -> [op, pc, in, local]
    ret             \* what the last handler returned (with its inputs)

\* homeRouterImpl.cachedPubKey before the first answer: no key lists
NilKeys == [ProfilePropertyKeys |-> << >>, PlayerCertificateKeys |-> << >>]

vars == <<now, users, textures, texMaps, tokens, nextTok, sessions, limiters,
          regTokens, nextReg, smtpEnabled, ups, requestCounter, pool, keyPairCh,
          profileKeyCache, nextKey, cachedPubKey, inflight, ret>>

accountVars == <<users, textures>>
regVars == <<regTokens, nextReg, smtpEnabled>>
upVars == <<ups, requestCounter, pool>>
keyVars == <<keyPairCh, profileKeyCache, nextKey, cachedPubKey>>

-----------------------------------------------------------------------------
(* Bounds of the model *)

MaxTokens == 4
\* cap on the access tokens minted where token lifecycles are explored
LifecycleTokens == 2
\* cap on the registration tokens ever minted
MaxRegTokens == 2
MaxSeconds == 1
\* cap on a Texture row's reference count (uint in the code)
MaxUsed == 2
\* cap on the federation request counter
MaxRequests == 3

(* Input alphabets *)

Emails == {"alice@example.com", "bob@example.com"}
Passwords == {"secret1", "secret2"}
Names == {"Alice", "Bob"}
Slots == {"SKIN", "CAPE"}
ServerIds == {"S"}
Ips == {"1.2.3.4", "9.9.9.9"}
NoHash == "none"

\* *string client tokens: a nil pointer, the empty string, or a non-empty string
NilClient == 0
EmptyClient == 1
GivenClients == {2, 3}
RandomClient(n) == 100 + n

\* an access token longer than 36 characters (not minted by this server)
ForeignToken == 0

-----------------------------------------------------------------------------
(* util: errors *)

NoError == [status |-> 200, code |-> "", msg |-> ""]
NewForbiddenOperationError(msg) ==
    [status |-> 403, code |-> "ForbiddenOperationException", msg |-> msg]
NewIllegalArgumentError(msg) ==
    [status |-> 400, code |-> "IllegalArgumentException", msg |-> msg]
\* an error that is no YggdrasilError: HandleError answers 403 with its text
PlainError(msg) == [status |-> 403, code |-> "", msg |-> msg]

TooManyRequests ==
    [status |-> 429, code |-> "ForbiddenOperationException", msg |-> "Forbidden"]
MessageInvalidToken == "Invalid token."
MessageInvalidCredentials == "Invalid credentials. Invalid username or password."
MessageTokenAlreadyAssigned == "Access token already has a profile assigned."
MessageProfileNotFound == "No such profile."

Ret(op, in, err, out) == [op |-> op, in |-> in, err |-> err, out |-> out]

\* util.UnsignedString: the 32-digit form of a UUID, without hyphens
UnsignedString(id) == [uuid |-> id, hyphens |-> FALSE]
HyphenatedString(id) == [uuid |-> id, hyphens |-> TRUE]

\* bcrypt.GenerateFromPassword / CompareHashAndPassword
HashPassword(p) == <<"bcrypt", p>>
CompareHashAndPassword(h, p) == h = HashPassword(p)

-----------------------------------------------------------------------------
(* model.Token *)

Valid == 0
NeedRefresh == 1
Invalid == 2

TokenNeedRefreshAge == 3600 * 24 * 15
TokenInvalidAge == 3600 * 24 * 30

\* a variant with the thresholds off by one (>= for >)
GetAvailableLevel_Inclusive(t, clock) ==
    LET d == clock - t.createAt IN
    IF d >= TokenInvalidAge THEN Invalid
    ELSE IF d >= TokenNeedRefreshAge THEN NeedRefresh
    ELSE Valid

GetAvailableLevel(t, clock) ==
    LET d == clock - t.createAt IN
    IF d > TokenInvalidAge THEN Invalid
    ELSE IF d > TokenNeedRefreshAge THEN NeedRefresh
    ELSE Valid

NewToken(accessToken, clientToken, selectedProfile, clock) ==
    [createAt |-> clock,
     ClientToken |-> IF clientToken = NilClient \/ clientToken = EmptyClient
                     THEN RandomClient(accessToken) ELSE clientToken,
     AccessToken |-> accessToken,
     SelectedProfile |-> selectedProfile]

-----------------------------------------------------------------------------
(* model.User / model.Profile *)

\* json.Marshal(p.Textures): the object's members
SerializeTextures(m) == {<<s, m[s]>> : s \in {x \in Slots : m[x] # NoHash}}

\* json.Unmarshal in NewProfile: a fresh map holding the members
DeserializeTextures(ser) ==
    [s \in Slots |-> IF \E p \in ser : p[1] = s
                     THEN (CHOOSE p \in ser : p[1] = s)[2] ELSE NoHash]

EmptyTextures == [s \in Slots |-> NoHash]

\* the map references held by tokens, sessions and the profile copies of the
\* requests in flight (everything else is garbage)
HeldRefs(toks, sess, calls) ==
    {toks[a].SelectedProfile.Textures : a \in DOMAIN toks}
        \cup {sess[s].Token.SelectedProfile.Textures : s \in DOMAIN sess}
        \cup {calls[c].local.Textures :
                 c \in {d \in DOMAIN calls : calls[d].op = "ChangeProfile"}}

UsedRefs(toks, sess) == HeldRefs(toks, sess, inflight)

\* a reference no live object holds (a newly allocated Go map)
FreshRef(toks, sess) ==
    LET used == UsedRefs(toks, sess) IN
    CHOOSE n \in 1..(Cardinality(used) + 1) :
        n \notin used /\ \A m \in 1..(n - 1) : m \in used

\* the heap restricted to the maps that are still referenced
Collect(maps, toks, sess) == [r \in UsedRefs(toks, sess) |-> maps[r]]

\* User.Profile() on a row just loaded from the database (u.profile == nil):
\* NewProfile builds a new map, stored at ref
UserProfile(id, ref) == [Id |-> id, Name |-> users[id].ProfileName, Textures |-> ref]

\* a row of table users
NewUser(id, email, password, verified, name) ==
    [ID |-> id, Email |-> email, Password |-> HashPassword(password), EmailVerified |-> verified,
     ProfileName |-> name, SerializedTextures |-> SerializeTextures(EmptyTextures)]

UserIdsByEmail(e) == {id \in DOMAIN users : users[id].Email = e}
UserIdsByName(n) == {id \in DOMAIN users : users[id].ProfileName = n}

-----------------------------------------------------------------------------
(* golang.org/x/time/rate as used by allowUser / allowEmail; tokens are    *)
(* counted in thousandths                                                   *)

LoginRateMilli == 200
LoginBurst == 3
EmailRateMilli == 20
EmailBurst == 1

NewLimiter(rateMilli, burst, clock) ==
    [tokens |-> burst * 1000, last |-> clock, rate |-> rateMilli, burst |-> burst]

\* Limiter.Allow(): advance the bucket to the clock, take one token if there is one
LimiterAllow(lim, clock) ==
    LET elapsed == IF clock > lim.last THEN clock - lim.last ELSE 0
        filled == lim.tokens + elapsed * lim.rate
        avail == IF filled > lim.burst * 1000 THEN lim.burst * 1000 ELSE filled
    IN  IF avail >= 1000
        THEN [ok |-> TRUE, lim |-> [lim EXCEPT !.tokens = avail - 1000, !.last = clock]]
        ELSE [ok |-> FALSE, lim |-> lim]

\* allowUser / allowEmail on the limiter cache lims: [ok, lims]
allowKeyIn(lims, key, rateMilli, burst) ==
    IF key \in DOMAIN lims
    THEN LET r == LimiterAllow(lims[key], now)
         IN  [ok |-> r.ok, lims |-> [lims EXCEPT ![key] = r.lim]]
    ELSE [ok |-> TRUE,
          lims |-> [k \in DOMAIN lims \cup {key} |->
                      IF k = key THEN NewLimiter(rateMilli, burst, now) ELSE lims[k]]]

allowKey(key, rateMilli, burst) == allowKeyIn(limiters, key, rateMilli, burst)

\* a key of limitLruCache: prefix + value ("ip:" + ip, "email:" + email, or
\* the bare user name)
LimiterKey(prefix, value) == <<prefix, value>>

allowUser(username) == allowKey(LimiterKey("", username), LoginRateMilli, LoginBurst)
allowEmail(key) == allowKey(key, EmailRateMilli, EmailBurst)

-----------------------------------------------------------------------------
(* tokenStore *)

\* AcquireToken(user, clientToken, nil): [toks, maps, token]
AcquireToken(toks, maps, id, clientToken) ==
    LET ref == FreshRef(toks, sessions)
        tok == NewToken(nextTok + 1, clientToken, UserProfile(id, ref), now)
    IN  [toks |-> [a \in DOMAIN toks \cup {tok.AccessToken} |->
                     IF a = tok.AccessToken THEN tok ELSE toks[a]],
         maps |-> [r \in DOMAIN maps \cup {ref} |->
                     IF r = ref THEN DeserializeTextures(users[id].SerializedTextures)
                     ELSE maps[r]],
         token |-> tok]

\* a variant that forgets to remove
RemoveAccessToken_Keep(toks, accessToken) == toks

RemoveAccessToken(toks, accessToken) ==
    [a \in DOMAIN toks \ {accessToken} |-> toks[a]]

\* a variant that clears the whole cache
RemoveAll_Purge(toks, profileId) == << >>

RemoveAll(toks, profileId) ==
    [a \in {x \in DOMAIN toks : toks[x].SelectedProfile.Id # profileId} |-> toks[a]]

\* a variant that checks the age before the client token
VerifyToken_AgeFirst(toks, accessToken, clientToken) ==
    IF accessToken \in DOMAIN toks
    THEN LET token == toks[accessToken] IN
         IF GetAvailableLevel(token, now) = Invalid
         THEN [level |-> Invalid, toks |-> RemoveAccessToken(toks, accessToken)]
         ELSE IF clientToken # NilClient /\ token.ClientToken # clientToken
              THEN [level |-> Invalid, toks |-> toks]
              ELSE [level |-> GetAvailableLevel(token, now), toks |-> toks]
    ELSE [level |-> Invalid, toks |-> toks]

\* VerifyToken(accessToken, clientToken): [level, toks]
VerifyToken(toks, accessToken, clientToken) ==
    IF accessToken \in DOMAIN toks
    THEN LET token == toks[accessToken] IN
         IF clientToken # NilClient /\ token.ClientToken # clientToken
         THEN [level |-> Invalid, toks |-> toks]
         ELSE IF GetAvailableLevel(token, now) = Invalid
              THEN [level |-> Invalid, toks |-> RemoveAccessToken(toks, accessToken)]
              ELSE [level |-> GetAvailableLevel(token, now), toks |-> toks]
    ELSE [level |-> Invalid, toks |-> toks]

\* len(accessToken)
AccessTokenLen(a) == IF a = ForeignToken THEN 37 ELSE 36


-----------------------------------------------------------------------------
(* userServiceImpl: Login, Refresh, Validate, Invalidate, Signout *)

\* an answer that tells an unknown address from a wrong password
LoginFailure_NotFound(found) ==
    IF found THEN NewForbiddenOperationError(MessageInvalidCredentials)
    ELSE NewForbiddenOperationError("user not found")

\* the return statement after the credential test, reached when no row has
\* the address (found = FALSE) and when the password does not match
LoginFailure(found) == NewForbiddenOperationError(MessageInvalidCredentials)

\* Login on an account table: what it answers and what it leaves behind
LoginIn(accounts, username, password, clientToken) ==
    LET allow == allowUser(username)
        ids == {i \in DOMAIN accounts : accounts[i].Email = username}
        id == CHOOSE i \in ids : TRUE
        matched == ids # {} /\ CompareHashAndPassword(accounts[id].Password, password)
        acq == AcquireToken(tokens, texMaps, id, clientToken)
        kept == [toks |-> tokens, maps |-> texMaps, minted |-> FALSE]
    IN  IF ~allow.ok
        THEN [err |-> TooManyRequests, out |-> 0, lims |-> allow.lims] @@ kept
        ELSE IF matched /\ ~accounts[id].EmailVerified
        THEN [err |-> NewForbiddenOperationError("Email not verified"), out |-> 0,
              lims |-> allow.lims] @@ kept
        ELSE IF matched
        THEN [err |-> NoError,
              out |-> [accessToken |-> acq.token.AccessToken,
                       clientToken |-> acq.token.ClientToken,
                       selectedProfile |-> UnsignedString(id)],
              lims |-> allow.lims, toks |-> acq.toks, maps |-> acq.maps,
              minted |-> TRUE]
        ELSE [err |-> LoginFailure(ids # {}), out |-> 0, lims |-> allow.lims] @@ kept

Login(username, password, clientToken) ==
    LET in == [username |-> username, password |-> password, clientToken |-> clientToken]
        r == LoginIn(users, username, password, clientToken)
    IN  /\ r.minted => nextTok < MaxTokens
        /\ limiters' = r.lims
        /\ tokens' = r.toks
        /\ texMaps' = r.maps
        /\ nextTok' = IF r.minted THEN nextTok + 1 ELSE nextTok
        /\ ret' = Ret("Login", in, r.err, r.out)
        /\ UNCHANGED <<inflight, now, accountVars, sessions, regVars, keyVars, upVars>>

Refresh(accessToken, clientToken, hasSelectedProfile) ==
    LET in == [accessToken |-> accessToken, clientToken |-> clientToken,
               selectedProfile |-> hasSelectedProfile]
        ver == VerifyToken(tokens, accessToken, clientToken)
        found == accessToken \in DOMAIN ver.toks
        id == ver.toks[accessToken].SelectedProfile.Id
        acq == AcquireToken(ver.toks, texMaps, id, clientToken)
        rotated == RemoveAccessToken(acq.toks, accessToken)
        success == /\ AccessTokenLen(accessToken) <= 36
                   /\ ~hasSelectedProfile
                   /\ ver.level # Invalid
                   /\ found
                   /\ id \in DOMAIN users
    IN  /\ success => nextTok < MaxTokens
        /\ IF AccessTokenLen(accessToken) > 36
           THEN /\ ret' = Ret("Refresh", in, NewForbiddenOperationError(MessageInvalidToken), 0)
                /\ UNCHANGED <<tokens, texMaps, nextTok>>
           ELSE IF hasSelectedProfile
           THEN /\ ret' = Ret("Refresh", in,
                              NewForbiddenOperationError(MessageTokenAlreadyAssigned), 0)
                /\ UNCHANGED <<tokens, texMaps, nextTok>>
           ELSE IF ver.level = Invalid \/ ~found
           THEN /\ ret' = Ret("Refresh", in, NewForbiddenOperationError(MessageInvalidToken), 0)
                /\ tokens' = ver.toks
                /\ texMaps' = Collect(texMaps, ver.toks, sessions)
                /\ UNCHANGED nextTok
           ELSE IF id \notin DOMAIN users
           THEN /\ ret' = Ret("Refresh", in, NewIllegalArgumentError(MessageProfileNotFound), 0)
                /\ UNCHANGED <<tokens, texMaps, nextTok>>
           ELSE /\ tokens' = rotated
                /\ texMaps' = Collect(acq.maps, rotated, sessions)
                /\ nextTok' = nextTok + 1
                /\ ret' = Ret("Refresh", in, NoError,
                              [accessToken |-> acq.token.AccessToken,
                               clientToken |-> acq.token.ClientToken,
                               selectedProfile |-> UnsignedString(acq.token.SelectedProfile.Id)])
        /\ UNCHANGED <<inflight, now, accountVars, sessions, limiters, regVars, keyVars, upVars>>

Validate(accessToken, clientToken) ==
    LET in == [accessToken |-> accessToken, clientToken |-> clientToken]
        local == AccessTokenLen(accessToken) <= 36
        ver == IF local THEN VerifyToken(tokens, accessToken, clientToken)
               ELSE [level |-> Invalid, toks |-> tokens]
    IN  /\ tokens' = ver.toks
        /\ texMaps' = Collect(texMaps, ver.toks, sessions)
        /\ ret' = Ret("Validate", in,
                      IF local /\ ver.level = Valid THEN NoError
                      ELSE NewForbiddenOperationError(MessageInvalidToken),
                      [level |-> ver.level, found |-> accessToken \in DOMAIN tokens])
        /\ UNCHANGED <<inflight, now, accountVars, nextTok, sessions, limiters, regVars, keyVars, upVars>>

Invalidate(accessToken) ==
    LET local == AccessTokenLen(accessToken) <= 36
        toks == IF local THEN RemoveAccessToken(tokens, accessToken) ELSE tokens
    IN  /\ tokens' = toks
        /\ texMaps' = Collect(texMaps, toks, sessions)
        /\ ret' = Ret("Invalidate", [accessToken |-> accessToken],
                      IF local THEN NoError
                      ELSE NewForbiddenOperationError(MessageInvalidToken), 0)
        /\ UNCHANGED <<inflight, now, accountVars, nextTok, sessions, limiters, regVars, keyVars, upVars>>

Signout(username, password) ==
    LET in == [username |-> username, password |-> password]
        allow == allowUser(username)
        ids == UserIdsByEmail(username)
        id == CHOOSE i \in ids : TRUE
        matched == ids # {} /\ CompareHashAndPassword(users[id].Password, password)
        toks == IF allow.ok /\ matched THEN RemoveAll(tokens, id) ELSE tokens
    IN  /\ limiters' = allow.lims
        /\ tokens' = toks
        /\ texMaps' = Collect(texMaps, toks, sessions)
        /\ ret' = Ret("Signout", in,
                      IF ~allow.ok THEN TooManyRequests
                      ELSE IF matched THEN NoError
                      ELSE NewForbiddenOperationError(MessageInvalidCredentials), 0)
        /\ UNCHANGED <<inflight, now, accountVars, nextTok, sessions, regVars, keyVars, upVars>>

\* TokenService.GetToken, as the session and texture handlers call it
GetToken(accessToken) ==
    /\ ret' = Ret("GetToken", [accessToken |-> accessToken], NoError,
                  accessToken \in DOMAIN tokens)
    /\ UNCHANGED <<inflight, now, accountVars, tokens, texMaps, nextTok, sessions, limiters,
                   regVars, keyVars, upVars>>

\* the wall clock advances to a later instant (one of the instants the
\* specification observes)
Tick(instants) ==
    /\ \E t \in instants :
          /\ t > now
          /\ now' = t
          /\ ret' = Ret("Tick", [d |-> t - now], NoError, 0)
    /\ UNCHANGED <<inflight, accountVars, tokens, texMaps, nextTok, sessions, limiters,
                   regVars, keyVars, upVars>>

-----------------------------------------------------------------------------
(* textureServiceImpl *)

Images == {"imgA", "imgB"}
BadImage == "undecodable"
Unreachable == "unreachable"
TextureTypes == {"skin", "cape", "CAPE", "elytra"}

\* model.ComputeTextureId: the digest of the decoded pixels
ComputeTextureId(img) == <<"sha256", img>>

\* strings.ToUpper on the texture types above
ToUpper(t) ==
    IF t = "skin" THEN "SKIN"
    ELSE IF t = "cape" \/ t = "CAPE" THEN "CAPE"
    ELSE "ELYTRA"

NormalizeTextureType(t) ==
    IF ToUpper(t) # "SKIN" /\ ToUpper(t) # "CAPE" THEN "SKIN" ELSE ToUpper(t)

\* the checks SetTexture, UploadTexture and DeleteTexture start with
TextureAuth(accessToken, profileId) ==
    IF accessToken \notin DOMAIN tokens
          \/ GetAvailableLevel(tokens[accessToken], now) # Valid
    THEN NewForbiddenOperationError(MessageInvalidToken)
    ELSE IF tokens[accessToken].SelectedProfile.Id # profileId
    THEN NewForbiddenOperationError("Profile mismatch.")
    ELSE IF profileId \notin DOMAIN users
    THEN NewForbiddenOperationError(MessageProfileNotFound)
    ELSE NoError

\* the decrement of a row that loses a referencer: delete it when Used < 2
ReleaseTexture(rows, hash) ==
    IF hash \notin DOMAIN rows THEN rows
    ELSE IF rows[hash] < 2 THEN [h \in DOMAIN rows \ {hash} |-> rows[h]]
    ELSE [rows EXCEPT ![hash] = @ - 1]

\* the statements of the bookkeeping that the database can refuse; NoFault:
\* none is refused
Statements == {"create", "increment", "decrement", "delete", "save"}
NoFault == "none"
ErrStatement == PlainError("database error")

\* the statement that takes a referencer from the row of hash, if it has a row
ReleaseStatement(rows, hash) ==
    IF hash \notin DOMAIN rows THEN NoFault
    ELSE IF rows[hash] < 2 THEN "delete" ELSE "decrement"

\* saveTexture's transaction when the database refuses the statement fault
\* (if it comes to run), on a database that aborts a transaction at its first
\* refused statement (aborts) or goes on with it:
\* [textures, users, tex (the profile's new map), err, failed]
saveTextureTx(id, img, textureType, fault, aborts) ==
    LET slot == NormalizeTextureType(textureType)
        profile == DeserializeTextures(users[id].SerializedTextures)
        hash == ComputeTextureId(img)
        oldHash == profile[slot]
        oldExist == oldHash # NoHash
        first == IF hash \notin DOMAIN textures THEN "create"
                 ELSE IF ~oldExist \/ oldHash # hash THEN "increment"
                 ELSE NoFault
        added == IF first = fault THEN textures
                 ELSE IF first = "create"
                 THEN [h \in DOMAIN textures \cup {hash} |->
                         IF h = hash THEN 1 ELSE textures[h]]
                 ELSE IF first = "increment"
                 THEN [textures EXCEPT ![hash] = @ + 1]
                 ELSE textures
        \* tx.First(&oldTexture) fails as well in an aborted transaction
        second == IF oldExist /\ oldHash # hash /\ ~(aborts /\ first = fault)
                  THEN ReleaseStatement(added, oldHash) ELSE NoFault
        released == IF second = NoFault \/ second = fault THEN added
                    ELSE ReleaseTexture(added, oldHash)
        failed == IF first = fault THEN first
                  ELSE IF second # NoFault /\ second = fault THEN second
                  ELSE IF fault = "save" THEN "save" ELSE NoFault
        \* the errors of Create and Save are returned, the others are dropped
        rollback == failed \in {"create", "save"} \/ (aborts /\ failed # NoFault)
        tex == [profile EXCEPT ![slot] = hash]
    IN  IF rollback
        THEN [textures |-> textures, users |-> users, tex |-> profile,
              err |-> ErrStatement, failed |-> failed]
        ELSE [textures |-> released,
              users |-> [users EXCEPT ![id].SerializedTextures = SerializeTextures(tex)],
              tex |-> tex, err |-> NoError, failed |-> failed]

\* saveTexture's transaction: [textures, users, tex (the profile's new map)]
saveTexture(id, img, textureType) == saveTextureTx(id, img, textureType, NoFault, FALSE)

\* SetTexture / UploadTexture after the image source has been read: image is
\* a decoded image, BadImage (too large or not an image) or Unreachable
\* (SetTexture only: the download failed)
StoreTextureTx(op, accessToken, profileId, image, textureType, fault, aborts) ==
    LET in == [accessToken |-> accessToken, profileId |-> profileId,
               image |-> image, textureType |-> textureType,
               fault |-> fault, aborts |-> aborts]
        auth == TextureAuth(accessToken, profileId)
        saved == saveTextureTx(profileId, image, textureType, fault, aborts)
        ref == FreshRef(tokens, sessions)
        toks == [tokens EXCEPT ![accessToken].SelectedProfile =
                    [Id |-> profileId, Name |-> users[profileId].ProfileName,
                     Textures |-> ref]]
        maps == [r \in DOMAIN texMaps \cup {ref} |->
                    IF r = ref THEN saved.tex ELSE texMaps[r]]
    IN  /\ IF auth # NoError
           THEN /\ ret' = Ret(op, in, auth, [failed |-> NoFault])
                /\ UNCHANGED <<users, textures, tokens, texMaps>>
           ELSE IF image = Unreachable
           THEN /\ ret' = Ret(op, in, PlainError("Get: error"), [failed |-> NoFault])
                /\ UNCHANGED <<users, textures, tokens, texMaps>>
           ELSE IF image = BadImage
           THEN /\ ret' = Ret(op, in, NewIllegalArgumentError(
                                "Image too large(max 1024 pixels each dimension)"), [failed |-> NoFault])
                /\ UNCHANGED <<users, textures, tokens, texMaps>>
           ELSE IF saved.err # NoError
           THEN /\ ret' = Ret(op, in, saved.err, [failed |-> saved.failed])
                /\ UNCHANGED <<users, textures, tokens, texMaps>>
           ELSE /\ \A h \in DOMAIN saved.textures : saved.textures[h] <= MaxUsed
                /\ users' = saved.users
                /\ textures' = saved.textures
                /\ tokens' = toks
                /\ texMaps' = Collect(maps, toks, sessions)
                /\ ret' = Ret(op, in, NoError, [failed |-> saved.failed])
        /\ UNCHANGED <<inflight, now, nextTok, sessions, limiters, regVars, keyVars, upVars>>

StoreTexture(op, accessToken, profileId, image, textureType) ==
    StoreTextureTx(op, accessToken, profileId, image, textureType, NoFault, FALSE)

UploadTexture(accessToken, profileId, image, textureType) ==
    StoreTexture("UploadTexture", accessToken, profileId, image, textureType)

SetTexture(accessToken, profileId, fetched, textureType) ==
    StoreTexture("SetTexture", accessToken, profileId, fetched, textureType)

DeleteTextureTx(accessToken, profileId, textureType, fault, aborts) ==
    LET in == [accessToken |-> accessToken, profileId |-> profileId,
               textureType |-> textureType, fault |-> fault, aborts |-> aborts]
        auth == TextureAuth(accessToken, profileId)
        slot == NormalizeTextureType(textureType)
        token == tokens[accessToken]
        ref == token.SelectedProfile.Textures
        inToken == texMaps[ref][slot] # NoHash
        fromDb == DeserializeTextures(users[profileId].SerializedTextures)
        hash == IF inToken THEN texMaps[ref][slot] ELSE fromDb[slot]
        \* delete(token.SelectedProfile.Textures, textureType): in place
        maps == IF inToken THEN [texMaps EXCEPT ![ref][slot] = NoHash] ELSE texMaps
        \* the profile handed to user.SetProfile
        name == IF inToken THEN token.SelectedProfile.Name
                ELSE users[profileId].ProfileName
        tex == IF inToken THEN maps[ref] ELSE [fromDb EXCEPT ![slot] = NoHash]
        release == ReleaseStatement(textures, hash)
        failed == IF release # NoFault /\ release = fault THEN release
                  ELSE IF fault = "save" THEN "save" ELSE NoFault
        \* the error of Save is returned, the others are dropped
        rollback == failed = "save" \/ (aborts /\ failed # NoFault)
    IN  /\ IF auth # NoError
           THEN /\ ret' = Ret("DeleteTexture", in, auth, [failed |-> NoFault])
                /\ UNCHANGED <<users, textures, texMaps>>
           ELSE IF hash = NoHash
           THEN /\ ret' = Ret("DeleteTexture", in,
                              NewForbiddenOperationError(MessageProfileNotFound), [failed |-> NoFault])
                /\ UNCHANGED <<users, textures, texMaps>>
           ELSE IF rollback
           THEN /\ texMaps' = maps
                /\ ret' = Ret("DeleteTexture", in, ErrStatement, [failed |-> failed])
                /\ UNCHANGED <<users, textures>>
           ELSE /\ textures' = IF failed = NoFault THEN ReleaseTexture(textures, hash)
                               ELSE textures
                /\ users' = [users EXCEPT ![profileId].ProfileName = name,
                                          ![profileId].SerializedTextures =
                                              SerializeTextures(tex)]
                /\ texMaps' = maps
                /\ ret' = Ret("DeleteTexture", in, NoError, [failed |-> failed])
        /\ UNCHANGED <<inflight, now, tokens, nextTok, sessions, limiters, regVars, keyVars, upVars>>

DeleteTexture(accessToken, profileId, textureType) ==
    DeleteTextureTx(accessToken, profileId, textureType, NoFault, FALSE)

-----------------------------------------------------------------------------
(* upstreamService: the federation layer *)

UpstreamIds == {"u1", "u2"}
StatusAvailable == "available"
StatusUnavailable == "unavailable"
\* UpstreamConfig, in seconds and requests
RecoveryTimeout == 2
RetryInterval == 2
NoTime == -1
NilResp == [StatusCode |-> -1]
NilErr == ""
ErrAllUpstreamsFailed == "all upstream services failed"

\* what the network does with one per-upstream request
HttpCreateError == [kind |-> "create", status |-> 0, body |-> ""]
HttpTransportError == [kind |-> "transport", status |-> 0, body |-> ""]
HttpBodyError == [kind |-> "body", status |-> 200, body |-> ""]
HttpAnswer(status, body) == [kind |-> "http", status |-> status, body |-> body]

\* NewUpstreamService's state for one configured upstream
NewUpstreamState ==
    [Status |-> StatusAvailable, LastErr |-> NilErr, LastFail |-> NoTime,
     FailCnt |-> 0, RetryAt |-> NoTime, TotalRequests |-> 0, SuccessCount |-> 0]

\* a service that never takes the degraded path
degradedMode_Never == FALSE

degradedMode == DOMAIN ups = {}

\* UpstreamServicePool: the permits in use and the permits ever granted
NewUpstreamServicePool == [ActiveCount |-> 0, TotalRequests |-> 0]
Acquire(p) == [p EXCEPT !.ActiveCount = @ + 1, !.TotalRequests = @ + 1]
\* a pool whose permits are never given back
Release_Leak(p) == p
Release(p) == [p EXCEPT !.ActiveCount = @ - 1]

\* util.DoHTTPRequestWithContext: [resp, err]
DoHTTPRequestWithContext(o) ==
    IF o.kind = "create"
    THEN [resp |-> NilResp, err |-> "failed to create request"]
    ELSE IF o.kind = "transport"
    THEN [resp |-> [StatusCode |-> 0, Body |-> "", IsSuccess |-> FALSE,
                    Error |-> "request failed"],
          err |-> "transport"]
    ELSE IF o.kind = "body"
    THEN [resp |-> [StatusCode |-> o.status, Body |-> "", IsSuccess |-> FALSE,
                    Error |-> "failed to read response body"],
          err |-> "read"]
    ELSE [resp |-> [StatusCode |-> o.status, Body |-> o.body,
                    IsSuccess |-> o.status >= 200 /\ o.status < 300,
                    Error |-> IF o.status >= 200 /\ o.status < 300
                              THEN NilErr ELSE "HTTP status"],
          err |-> NilErr]

\* the conversion with every 2xx answer, 204 included, taken as a success
doHTTPRequestWithFullURL_Plain2xx(o, treat204AsSuccess) ==
    LET h == DoHTTPRequestWithContext(o) IN
    IF h.err # NilErr /\ h.resp = NilResp
    THEN [resp |-> NilResp, err |-> h.err]
    ELSE [resp |-> [StatusCode |-> h.resp.StatusCode, Body |-> h.resp.Body,
                    IsSuccess |-> h.resp.IsSuccess, Error |-> h.resp.Error],
          err |-> NilErr]

\* upstreamService.doHTTPRequestWithFullURL: [resp, err]
doHTTPRequestWithFullURL(o, treat204AsSuccess) ==
    LET h == DoHTTPRequestWithContext(o) IN
    IF h.err # NilErr /\ h.resp = NilResp
    THEN [resp |-> NilResp, err |-> h.err]
    ELSE [resp |-> [StatusCode |-> h.resp.StatusCode, Body |-> h.resp.Body,
                    IsSuccess |-> IF h.resp.StatusCode = 204
                                  THEN treat204AsSuccess ELSE h.resp.IsSuccess,
                    Error |-> h.resp.Error],
          err |-> NilErr]

markUpstreamUnavailable(state, err, clock) ==
    [state EXCEPT !.Status = StatusUnavailable, !.LastErr = err,
                  !.LastFail = clock, !.FailCnt = @ + 1,
                  !.RetryAt = clock + RecoveryTimeout]

markUpstreamAvailable(state) ==
    [state EXCEPT !.Status = StatusAvailable, !.LastErr = NilErr]

\* the retry test with the recovery instant itself counted as passed
shouldRetryUnavailableUpstream_AtRetryAt(state, counter, clock) ==
    \/ state.Status = StatusAvailable
    \/ clock >= state.RetryAt
    \/ counter % RetryInterval = 0

shouldRetryUnavailableUpstream(state, counter, clock) ==
    \/ state.Status = StatusAvailable
    \/ clock > state.RetryAt
    \/ counter % RetryInterval = 0

getAvailableUpstreams(states, counter, clock) ==
    {id \in DOMAIN states :
        \/ states[id].Status = StatusAvailable
        \/ shouldRetryUnavailableUpstream(states[id], counter, clock)}

\* the body of the task requestAllUpstreams starts for one upstream: the
\* state it leaves and the response it puts on the channel
UpstreamTask(id, state, r, clock) ==
    IF r.err # NilErr
    THEN [state |-> markUpstreamUnavailable(state, r.err, clock),
          resp |-> [UpstreamID |-> id, IsSuccess |-> FALSE, StatusCode |-> 0,
                    Body |-> "", Error |-> r.err]]
    ELSE IF r.resp # NilResp
    THEN [state |-> markUpstreamAvailable(
                       [state EXCEPT !.SuccessCount = @ + 1, !.TotalRequests = @ + 1]),
          resp |-> [UpstreamID |-> id, IsSuccess |-> r.resp.IsSuccess,
                    StatusCode |-> r.resp.StatusCode, Body |-> r.resp.Body,
                    Error |-> r.resp.Error]]
    ELSE [state |-> state,
          resp |-> [UpstreamID |-> id, IsSuccess |-> FALSE, StatusCode |-> 0,
                    Body |-> "", Error |-> NilErr]]

\* index of the first success of a sequence of responses, 0 when none
RECURSIVE FirstSuccess(_, _)
FirstSuccess(resps, i) ==
    IF i > Len(resps) THEN 0
    ELSE IF resps[i].IsSuccess THEN i
    ELSE FirstSuccess(resps, i + 1)

\* an aggregation that lets the first arrival decide
aggregateResponses_FirstArrival(resps) ==
    IF Len(resps) > 0 /\ resps[1].IsSuccess
    THEN [IsSuccess |-> TRUE, PrimaryResult |-> resps[1],
          AllResults |-> SubSeq(resps, 1, 1), Error |-> NilErr]
    ELSE [IsSuccess |-> FALSE, PrimaryResult |-> NilResp,
          AllResults |-> resps, Error |-> ErrAllUpstreamsFailed]

\* aggregateResponses under RaceToSuccess, on the responses in arrival order
aggregateResponses(resps) ==
    LET k == FirstSuccess(resps, 1) IN
    IF k > 0
    THEN [IsSuccess |-> TRUE, PrimaryResult |-> resps[k],
          AllResults |-> SubSeq(resps, 1, k), Error |-> NilErr]
    ELSE [IsSuccess |-> FALSE, PrimaryResult |-> NilResp,
          AllResults |-> resps, Error |-> ErrAllUpstreamsFailed]

\* the arrival orders of the responses of a set of upstreams
Orders(ids) ==
    {q \in [1..Cardinality(ids) -> ids] : \A i, j \in DOMAIN q : q[i] = q[j] => i = j}

\* incrementRequestCounter and requestAllUpstreams: every eligible upstream
\* is called (calls[id] is what its request meets), the responses arrive in
\* the order q restricted to the eligible upstreams
requestAllUpstreams(calls, q, treat204AsSuccess) ==
    LET counter == requestCounter + 1
        avail == getAvailableUpstreams(ups, counter, now)
        task(id) == UpstreamTask(id, ups[id],
                        doHTTPRequestWithFullURL(calls[id], treat204AsSuccess), now)
        IsAvail(id) == id \in avail
        arrived == SelectSeq(q, IsAvail)
        resps == [i \in DOMAIN arrived |-> task(arrived[i]).resp]
    IN  [counter |-> counter,
         resps |-> resps,
         ups |-> [id \in DOMAIN ups |->
                    IF id \in avail THEN task(id).state ELSE ups[id]],
         called |-> avail,
         result |-> IF avail = {}
                    THEN [IsSuccess |-> FALSE, PrimaryResult |-> NilResp,
                          AllResults |-> << >>, Error |-> ErrAllUpstreamsFailed]
                    ELSE aggregateResponses(resps)]

all204(results) ==
    /\ Len(results) > 0
    /\ \A i \in DOMAIN results : results[i].StatusCode = 204

\* upstreamService.VerifySession: [counter, ups, called, err]
VerifySession(calls, q) ==
    IF degradedMode
    THEN [counter |-> requestCounter, pool |-> pool, ups |-> ups, called |-> {},
          err |-> NilErr]
    ELSE LET f == requestAllUpstreams(calls, q, TRUE) IN
         [counter |-> f.counter, pool |-> Release(Acquire(pool)),
          ups |-> f.ups, called |-> f.called,
          err |-> IF f.result.IsSuccess THEN NilErr ELSE f.result.Error]

\* a query operation (HasJoined, LookupProfile): [counter, ups, called, out, err];
\* out is the parsed body of the primary result, BadJson fails to parse
BadJson == "not json"
NoResult == "nil"

UpstreamQuery(calls, q) ==
    IF degradedMode
    THEN [counter |-> requestCounter, pool |-> pool, ups |-> ups, called |-> {},
          out |-> NoResult, err |-> NilErr]
    ELSE LET f == requestAllUpstreams(calls, q, FALSE) IN
         [counter |-> f.counter, pool |-> Release(Acquire(pool)),
          ups |-> f.ups, called |-> f.called,
          out |-> IF f.result.IsSuccess /\ f.result.PrimaryResult.Body # BadJson
                  THEN f.result.PrimaryResult.Body ELSE NoResult,
          err |-> IF ~f.result.IsSuccess
                  THEN IF all204(f.result.AllResults) THEN NilErr ELSE f.result.Error
                  ELSE IF f.result.PrimaryResult.Body = BadJson
                  THEN "failed to parse response" ELSE NilErr]

HasJoined(calls, q) == UpstreamQuery(calls, q)

LookupProfile(profileID, calls, q) ==
    LET r == UpstreamQuery(calls, q) IN
    /\ degradedMode \/ requestCounter < MaxRequests
    /\ requestCounter' = r.counter
    /\ pool' = r.pool
    /\ ups' = r.ups
    /\ ret' = Ret("LookupProfile", [profileID |-> profileID, calls |-> calls, order |-> q],
                  IF r.err = NilErr THEN NoError
                  ELSE PlainError(r.err),
                  [profile |-> r.out, called |-> r.called])
    /\ UNCHANGED <<inflight, now, accountVars, tokens, texMaps, nextTok, sessions, limiters, regVars, keyVars>>

\* LookupByName and LookupByUUID: the query of LookupProfile on another URL
UpstreamLookup(op, in, calls, q) ==
    LET r == UpstreamQuery(calls, q) IN
    /\ degradedMode \/ requestCounter < MaxRequests
    /\ requestCounter' = r.counter
    /\ pool' = r.pool
    /\ ups' = r.ups
    /\ ret' = Ret(op, [key |-> in, calls |-> calls, order |-> q],
                  IF r.err = NilErr THEN NoError ELSE PlainError(r.err),
                  [profile |-> r.out, called |-> r.called])
    /\ UNCHANGED <<inflight, now, accountVars, tokens, texMaps, nextTok, sessions, limiters, regVars, keyVars>>

LookupByName(username, calls, q) == UpstreamLookup("LookupByName", username, calls, q)

LookupByUUID(uuid, calls, q) == UpstreamLookup("LookupByUUID", uuid, calls, q)

\* aggregateResponses under WaitAll, on the responses in arrival order
aggregateWaitAll(resps) ==
    LET k == FirstSuccess(resps, 1) IN
    [IsSuccess |-> k > 0,
     PrimaryResult |-> IF k > 0 THEN resps[k] ELSE NilResp,
     AllResults |-> resps,
     Error |-> IF k > 0 THEN NilErr ELSE ErrAllUpstreamsFailed]

\* the merge LookupBulkProfiles and GetPublicKeys make of the bodies of the
\* successful responses that parse (a body stands for the list it encodes)
MergeBodies(results) ==
    {results[i].Body : i \in {j \in DOMAIN results :
                                 results[j].IsSuccess /\ results[j].Body # BadJson}}

\* a WaitAll operation past its degraded-mode check: [counter, pool, ups, called, out, err]
UpstreamCollect(calls, q) ==
    LET f == requestAllUpstreams(calls, q, FALSE)
        result == IF f.called = {} THEN f.result ELSE aggregateWaitAll(f.resps)
    IN  [counter |-> f.counter, pool |-> Release(Acquire(pool)),
         ups |-> f.ups, called |-> f.called,
         out |-> IF result.IsSuccess THEN MergeBodies(result.AllResults) ELSE {},
         err |-> IF result.IsSuccess THEN NilErr ELSE result.Error]

LookupBulkProfiles(usernames, calls, q) ==
    LET r == UpstreamCollect(calls, q) IN
    /\ degradedMode \/ requestCounter < MaxRequests
    /\ IF degradedMode
       THEN /\ ret' = Ret("LookupBulkProfiles", [key |-> usernames, calls |-> calls, order |-> q],
                          NoError, [profile |-> NoResult, called |-> {}])
            /\ UNCHANGED upVars
       ELSE /\ requestCounter' = r.counter
            /\ pool' = r.pool
            /\ ups' = r.ups
            /\ ret' = Ret("LookupBulkProfiles", [key |-> usernames, calls |-> calls, order |-> q],
                          IF r.err = NilErr THEN NoError ELSE PlainError(r.err),
                          [profile |-> IF r.err = NilErr THEN r.out ELSE NoResult,
                           called |-> r.called])
    /\ UNCHANGED <<inflight, now, accountVars, tokens, texMaps, nextTok, sessions, limiters, regVars, keyVars>>

ErrNoPublicKeys == "public keys service unavailable: no upstream services configured"

GetPublicKeys(calls, q) ==
    LET r == UpstreamCollect(calls, q) IN
    /\ degradedMode \/ requestCounter < MaxRequests
    /\ IF degradedMode
       THEN /\ ret' = Ret("GetPublicKeys", [key |-> 0, calls |-> calls, order |-> q],
                          PlainError(ErrNoPublicKeys), [profile |-> NoResult, called |-> {}])
            /\ UNCHANGED upVars
       ELSE /\ requestCounter' = r.counter
            /\ pool' = r.pool
            /\ ups' = r.ups
            /\ ret' = Ret("GetPublicKeys", [key |-> 0, calls |-> calls, order |-> q],
                          IF r.err # NilErr THEN PlainError(r.err)
                          ELSE IF r.out = {}
                          THEN PlainError("no public keys retrieved from any upstream")
                          ELSE NoError,
                          [profile |-> IF r.err = NilErr /\ r.out # {}
                                       THEN r.out ELSE NoResult,
                           called |-> r.called])
    /\ UNCHANGED <<inflight, now, accountVars, tokens, texMaps, nextTok, sessions, limiters, regVars, keyVars>>

-----------------------------------------------------------------------------
(* sessionStore *)

SessionTtl == 30
NoContent == [status |-> 204, code |-> "", msg |-> ""]

\* a session that keeps the token without the name of its profile
NewAuthenticationSession_NoName(serverId, token, ip, clock) ==
    [ServerId |-> serverId, Token |-> [token EXCEPT !.SelectedProfile.Name = ""],
     Ip |-> ip, createAt |-> clock]

NewAuthenticationSession(serverId, token, ip, clock) ==
    [ServerId |-> serverId, Token |-> token, Ip |-> ip, createAt |-> clock]

HasExpired_Inclusive(session, clock) == clock - session.createAt >= SessionTtl

HasExpired(session, clock) == clock - session.createAt > SessionTtl

\* Profile.ToCompleteResponse on a profile whose texture map is tex
ToCompleteResponse(profile, tex) ==
    [id |-> UnsignedString(profile.Id), name |-> profile.Name, textures |-> tex]

JoinAllowed_AnyProfile(token, selectedProfile, clock) ==
    GetAvailableLevel(token, clock) = Valid

\* the test JoinServer makes on a token found in the cache
JoinAllowed(token, selectedProfile, clock) ==
    ~(\/ GetAvailableLevel(token, clock) # Valid
      \/ UnsignedString(token.SelectedProfile.Id) # selectedProfile)

JoinServer(accessToken, serverId, selectedProfile, ip, calls, q) ==
    LET in == [accessToken |-> accessToken, serverId |-> serverId,
               selectedProfile |-> selectedProfile, ip |-> ip,
               calls |-> calls, order |-> q]
        v == VerifySession(calls, q)
        added == [s \in DOMAIN sessions \cup {serverId} |->
                    IF s = serverId
                    THEN NewAuthenticationSession(serverId, tokens[accessToken], ip, now)
                    ELSE sessions[s]]
    IN  /\ IF accessToken \in DOMAIN tokens
           THEN IF ~JoinAllowed(tokens[accessToken], selectedProfile, now)
                THEN /\ ret' = Ret("JoinServer", in,
                                   NewForbiddenOperationError(MessageInvalidToken), 0)
                     /\ UNCHANGED <<sessions, texMaps, upVars>>
                ELSE /\ sessions' = added
                     /\ texMaps' = Collect(texMaps, tokens, added)
                     /\ ret' = Ret("JoinServer", in, NoError, 0)
                     /\ UNCHANGED upVars
           ELSE /\ degradedMode \/ requestCounter < MaxRequests
                /\ requestCounter' = v.counter
                /\ pool' = v.pool
                /\ ups' = v.ups
                /\ ret' = Ret("JoinServer", in,
                              IF v.err = NilErr THEN NoError ELSE PlainError(v.err),
                              [called |-> v.called])
                /\ UNCHANGED <<sessions, texMaps>>
        /\ UNCHANGED <<inflight, now, accountVars, tokens, nextTok, limiters, regVars, keyVars>>

HasJoinedServer(serverId, username, ip, calls, q) ==
    LET in == [serverId |-> serverId, username |-> username, ip |-> ip,
               calls |-> calls, order |-> q]
        session == sessions[serverId]
        \* session.HasExpired() && s.sessionCache.Remove(serverId)
        expired == HasExpired(session, now)
        kept == IF expired
                THEN [s \in DOMAIN sessions \ {serverId} |-> sessions[s]]
                ELSE sessions
        h == HasJoined(calls, q)
    IN  /\ IF serverId \in DOMAIN sessions
           THEN /\ sessions' = kept
                /\ texMaps' = Collect(texMaps, tokens, kept)
                /\ ret' = IF /\ ~expired
                             /\ (ip = "" \/ ip = session.Ip)
                             /\ session.Token.SelectedProfile.Name = username
                          THEN Ret("HasJoinedServer", in, NoError,
                                   ToCompleteResponse(session.Token.SelectedProfile,
                                       texMaps[session.Token.SelectedProfile.Textures]))
                          ELSE Ret("HasJoinedServer", in, NoContent, 0)
                /\ UNCHANGED upVars
           ELSE /\ degradedMode \/ requestCounter < MaxRequests
                /\ requestCounter' = h.counter
                /\ pool' = h.pool
                /\ ups' = h.ups
                /\ ret' = IF h.err # NilErr
                          THEN Ret("HasJoinedServer", in, PlainError(h.err), 0)
                          ELSE IF h.out # NoResult
                          THEN Ret("HasJoinedServer", in, NoError, h.out)
                          ELSE Ret("HasJoinedServer", in, NoContent, 0)
                /\ UNCHANGED <<sessions, texMaps>>
        /\ UNCHANGED <<inflight, now, accountVars, tokens, nextTok, limiters, regVars, keyVars>>

-----------------------------------------------------------------------------
(* regTokenServiceImpl and the account operations that use it *)

RegTokenValidity == 600

\* regexp ^(\w){3,}(\.\w+)*@(\w){2,}((\.\w+)+)$ on the addresses used here
MatchEmail(e) == e \in {"alice@example.com", "bob@example.com", "nobody@example.com"}

\* len(password) on the passwords used here
PasswordLen(p) == IF p = "12345" THEN 5 ELSE 7

\* a check that accepts every display name
isInvalidProfileName_Never(name) == FALSE

isInvalidProfileName(name) == name = "" \/ name = "A" \/ name = "A B"

NewRegToken(accessToken, email, clock) ==
    [AccessToken |-> accessToken, Email |-> email, createAt |-> clock]

\* a validity that includes the tenth minute's last instant
IsValid_Inclusive(t, clock) == clock - t.createAt <= RegTokenValidity

IsValid(t, clock) == clock - t.createAt < RegTokenValidity

\* regTokenServiceImpl.SendTokenEmail: the token cache afterwards (the mail is
\* sent, or not, after the token has been cached)
SendTokenEmail(cache, email) ==
    IF ~smtpEnabled THEN cache
    ELSE [a \in DOMAIN cache \cup {nextReg + 1} |->
            IF a = nextReg + 1 THEN NewRegToken(nextReg + 1, email, now) ELSE cache[a]]

\* regTokenServiceImpl.VerifyToken: [email, err, cache]
\* an exchange that leaves the token in the cache
VerifyRegToken_Peek(cache, accessToken) ==
    IF accessToken \notin DOMAIN cache
    THEN [email |-> "", err |-> NewIllegalArgumentError(MessageInvalidToken), cache |-> cache]
    ELSE IF IsValid(cache[accessToken], now)
    THEN [email |-> cache[accessToken].Email, err |-> NoError, cache |-> cache]
    ELSE [email |-> "", err |-> NewIllegalArgumentError("wrong access token or email"),
          cache |-> cache]

VerifyRegToken(cache, accessToken) ==
    IF accessToken \notin DOMAIN cache
    THEN [email |-> "", err |-> NewIllegalArgumentError(MessageInvalidToken), cache |-> cache]
    ELSE IF IsValid(cache[accessToken], now)
    THEN [email |-> cache[accessToken].Email, err |-> NoError,
          cache |-> [a \in DOMAIN cache \ {accessToken} |-> cache[a]]]
    ELSE [email |-> "", err |-> NewIllegalArgumentError("wrong access token or email"),
          cache |-> cache]

\* userServiceImpl.SendEmail on an account table: [err, lims, cache, minted]
SendEmailIn(accounts, email, ip) ==
    LET byIp == allowKeyIn(limiters, LimiterKey("ip:", ip), EmailRateMilli, EmailBurst)
        byEmail == allowKeyIn(byIp.lims, LimiterKey("email:", email), EmailRateMilli, EmailBurst)
        exists == \E i \in DOMAIN accounts : accounts[i].Email = email
    IN  IF ~byIp.ok
        THEN [err |-> [status |-> 429, code |-> "ForbiddenOperationException",
                       msg |-> "Forbidden"],
              lims |-> byIp.lims, cache |-> regTokens, minted |-> FALSE]
        ELSE IF ~byEmail.ok
        THEN [err |-> [status |-> 429, code |-> "ForbiddenOperationException",
                       msg |-> "Forbidden"],
              lims |-> byEmail.lims, cache |-> regTokens, minted |-> FALSE]
        ELSE IF ~exists
        THEN [err |-> NewForbiddenOperationError("user not found"),
              lims |-> byEmail.lims, cache |-> regTokens, minted |-> FALSE]
        ELSE [err |-> NoError, lims |-> byEmail.lims,
              cache |-> SendTokenEmail(regTokens, email), minted |-> smtpEnabled]

SendEmail(email, ip) ==
    LET r == SendEmailIn(users, email, ip) IN
    /\ r.minted => nextReg < MaxRegTokens
    /\ limiters' = r.lims
    /\ regTokens' = r.cache
    /\ nextReg' = IF r.minted THEN nextReg + 1 ELSE nextReg
    /\ ret' = Ret("SendEmail", [email |-> email, ip |-> ip], r.err, 0)
    /\ UNCHANGED <<inflight, now, accountVars, tokens, texMaps, nextTok, sessions, smtpEnabled, keyVars, upVars>>

\* the EmailVerified column of a row created by Register: never assigned,
\* so the column default
RegisteredVerified == FALSE

\* mojangHasName: mojangUsernameToUUID(profileName) returned no error
Register(username, password, profileName, ip, mojangHasName) ==
    LET in == [username |-> username, password |-> password,
               profileName |-> profileName, ip |-> ip]
        id == Len(users) + 1
        created == Append(users,
                      [NewUser(id, username, password, RegisteredVerified, profileName)
                          EXCEPT !.SerializedTextures = SerializeTextures(EmptyTextures)])
        mail == SendEmailIn(created, username, ip)
        fail(err) == /\ ret' = Ret("Register", in, err, 0)
                     /\ UNCHANGED <<users, limiters, regTokens, nextReg>>
    IN  /\ IF UserIdsByEmail(username) # {}
           THEN fail(NewForbiddenOperationError("email exist"))
           ELSE IF UserIdsByName(profileName) # {}
           THEN fail(NewForbiddenOperationError("profileName exist"))
           ELSE IF mojangHasName
           THEN fail(NewForbiddenOperationError("profileName duplicate"))
           ELSE IF ~MatchEmail(username) \/ PasswordLen(password) < 6
                   \/ isInvalidProfileName(profileName)
           THEN fail(NewIllegalArgumentError(
                   "bad format(valid email, password longer than 5, profileName longer than 1)"))
           ELSE /\ mail.minted => nextReg < MaxRegTokens
                /\ users' = created
                /\ limiters' = mail.lims
                /\ regTokens' = mail.cache
                /\ nextReg' = IF mail.minted THEN nextReg + 1 ELSE nextReg
                /\ ret' = Ret("Register", in, NoError,
                              [id |-> UnsignedString(id), username |-> username])
        /\ UNCHANGED <<inflight, now, textures, tokens, texMaps, nextTok, sessions, smtpEnabled, keyVars, upVars>>

VerifyEmail(accessToken) ==
    LET v == VerifyRegToken(regTokens, accessToken)
        ids == UserIdsByEmail(v.email)
        id == CHOOSE i \in ids : TRUE
    IN  /\ regTokens' = v.cache
        /\ IF v.err # NoError
           THEN /\ ret' = Ret("VerifyEmail", [accessToken |-> accessToken], v.err, 0)
                /\ UNCHANGED users
           ELSE IF ids = {}
           THEN /\ ret' = Ret("VerifyEmail", [accessToken |-> accessToken],
                              NewIllegalArgumentError("user not found"), 0)
                /\ UNCHANGED users
           ELSE /\ users' = [users EXCEPT ![id].EmailVerified = TRUE]
                /\ ret' = Ret("VerifyEmail", [accessToken |-> accessToken], NoError, 0)
        /\ UNCHANGED <<inflight, now, textures, tokens, texMaps, nextTok, sessions, limiters,
                       nextReg, smtpEnabled, keyVars, upVars>>

\* a comparison that accepts a token bound to any address
TokenEmailDiffers_Never(tokenEmail, email) == FALSE

\* ResetPassword's test tokenEmail != email
TokenEmailDiffers(tokenEmail, email) == tokenEmail # email

ResetPassword(email, password, accessToken) ==
    LET in == [email |-> email, password |-> password, accessToken |-> accessToken]
        ids == UserIdsByEmail(email)
        id == CHOOSE i \in ids : TRUE
        v == VerifyRegToken(regTokens, accessToken)
    IN  /\ IF ids = {}
           THEN /\ ret' = Ret("ResetPassword", in,
                              NewIllegalArgumentError("user not found"), 0)
                /\ UNCHANGED <<users, regTokens>>
           ELSE IF v.err # NoError
           THEN /\ ret' = Ret("ResetPassword", in, v.err, 0)
                /\ regTokens' = v.cache
                /\ UNCHANGED users
           ELSE IF TokenEmailDiffers(v.email, email)
           THEN /\ ret' = Ret("ResetPassword", in,
                              NewIllegalArgumentError("email invalid"), 0)
                /\ regTokens' = v.cache
                /\ UNCHANGED users
           ELSE IF PasswordLen(password) < 6
           THEN /\ ret' = Ret("ResetPassword", in,
                              NewIllegalArgumentError("bad format(password longer than 5)"), 0)
                /\ regTokens' = v.cache
                /\ UNCHANGED users
           ELSE /\ users' = [users EXCEPT ![id].Password = HashPassword(password),
                                          ![id].EmailVerified = TRUE]
                /\ regTokens' = v.cache
                /\ ret' = Ret("ResetPassword", in, NoError, 0)
        /\ UNCHANGED <<inflight, now, textures, tokens, texMaps, nextTok, sessions, limiters,
                       nextReg, smtpEnabled, keyVars, upVars>>

\* a variant that overwrites the snapshot of every cached token
UpdateProfile_AllTokens(toks, profileId, profile) ==
    [a \in DOMAIN toks |-> [toks[a] EXCEPT !.SelectedProfile = profile]]

\* tokenStore.UpdateProfile: the cache afterwards
UpdateProfile(toks, profileId, profile) ==
    [a \in DOMAIN toks |->
        IF toks[a].SelectedProfile.Id = profileId
        THEN [toks[a] EXCEPT !.SelectedProfile = profile]
        ELSE toks[a]]

\* mojangHasName: mojangUsernameToUUID(changeTo) returned no error
ChangeProfile(accessToken, clientToken, changeTo, mojangHasName) ==
    LET in == [accessToken |-> accessToken, clientToken |-> clientToken,
               changeTo |-> changeTo, mojangHasName |-> mojangHasName]
        ver == VerifyToken(tokens, accessToken, clientToken)
        profile == tokens[accessToken].SelectedProfile
        renamed == UpdateProfile(ver.toks, profile.Id,
                                 [profile EXCEPT !.Name = changeTo])
        fail(err) == /\ tokens' = ver.toks
                     /\ texMaps' = Collect(texMaps, ver.toks, sessions)
                     /\ users' = users
                     /\ ret' = Ret("ChangeProfile", in, err, 0)
    IN  /\ IF ver.level # Valid
           THEN fail(NewForbiddenOperationError(MessageInvalidToken))
           ELSE IF profile.Id \notin DOMAIN users
           THEN fail(NewForbiddenOperationError("User not found"))
           ELSE IF UserIdsByName(changeTo) # {}
           THEN fail(NewForbiddenOperationError("profileName exist"))
           ELSE IF mojangHasName
           THEN fail(NewForbiddenOperationError("profileName duplicate"))
           ELSE IF isInvalidProfileName(changeTo)
           THEN fail(NewForbiddenOperationError("bad format(profileName longer than 1)"))
           ELSE /\ users' = [users EXCEPT ![profile.Id].ProfileName = changeTo]
                /\ tokens' = renamed
                /\ texMaps' = Collect(texMaps, renamed, sessions)
                /\ ret' = Ret("ChangeProfile", in, NoError, 0)
        /\ UNCHANGED <<inflight, now, textures, nextTok, sessions, limiters, regVars, keyVars, upVars>>

-----------------------------------------------------------------------------
(* Requests served concurrently.  gin runs every handler in its own        *)
(* goroutine; a handler below is cut at its database statements, and the   *)
(* statements of different requests interleave.  inflight holds the        *)
(* requests that have started and not yet returned.                        *)

\* cap on the requests in flight at once
MaxInflight == 2

\* the slot a request starting now gets
NewSlot == CHOOSE s \in 1..MaxInflight :
              s \notin DOMAIN inflight /\ \A t \in 1..(s - 1) : t \in DOMAIN inflight

\* a request starts, and stops at pc with its locals
StartCall(op, pc, in, local) ==
    [s \in DOMAIN inflight \cup {NewSlot} |->
        IF s = NewSlot THEN [op |-> op, pc |-> pc, in |-> in, local |-> local]
        ELSE inflight[s]]

\* a request returns
EndCall(slot) == [s \in DOMAIN inflight \ {slot} |-> inflight[s]]

At(slot, op, pc) ==
    slot \in DOMAIN inflight /\ inflight[slot].op = op /\ inflight[slot].pc = pc

\* a table users without its unique indexes
UniqueIndexViolated_NoIndex(rows) == FALSE

\* the primary key and the unique indexes email_idx and profile_name_idx of
\* table users: the statement that would leave these rows is refused
UniqueIndexViolated(rows) ==
    \E i, j \in DOMAIN rows :
        /\ i # j
        /\ \/ rows[i].ID = rows[j].ID
           \/ rows[i].Email = rows[j].Email
           \/ rows[i].ProfileName = rows[j].ProfileName

\* the error gorm returns for a refused statement (no YggdrasilError)
ErrDuplicatedKey == PlainError("UNIQUE constraint failed")

\* Register up to its first statement: the count of the rows with the email
RegisterCountEmail(username, password, profileName, ip, mojangHasName) ==
    LET in == [username |-> username, password |-> password,
               profileName |-> profileName, ip |-> ip, mojangHasName |-> mojangHasName]
    IN  /\ DOMAIN inflight # 1..MaxInflight
        /\ IF UserIdsByEmail(username) # {}
           THEN /\ ret' = Ret("RegisterCountEmail", in,
                              NewForbiddenOperationError("email exist"), 0)
                /\ UNCHANGED inflight
           ELSE /\ inflight' = StartCall("Register", "countName", in, 0)
                /\ ret' = Ret("RegisterCountEmail", in, NoError, NewSlot)
        /\ UNCHANGED <<now, accountVars, tokens, texMaps, nextTok, sessions, limiters,
                       regVars, keyVars, upVars>>

\* Register from the count of the rows with the profile name to the format test
RegisterCountName(slot) ==
    LET in == inflight[slot].in
        fail(err) == /\ ret' = Ret("RegisterCountName", in, err, 0)
                     /\ inflight' = EndCall(slot)
    IN  /\ At(slot, "Register", "countName")
        /\ IF UserIdsByName(in.profileName) # {}
           THEN fail(NewForbiddenOperationError("profileName exist"))
           ELSE IF in.mojangHasName
           THEN fail(NewForbiddenOperationError("profileName duplicate"))
           ELSE IF ~MatchEmail(in.username) \/ PasswordLen(in.password) < 6
                   \/ isInvalidProfileName(in.profileName)
           THEN fail(NewIllegalArgumentError(
                   "bad format(valid email, password longer than 5, profileName longer than 1)"))
           ELSE /\ inflight' = [inflight EXCEPT ![slot].pc = "create"]
                /\ ret' = Ret("RegisterCountName", in, NoError, slot)
        /\ UNCHANGED <<now, accountVars, tokens, texMaps, nextTok, sessions, limiters,
                       regVars, keyVars, upVars>>

\* Register from db.Create to its return (uuid.New() is a UUID no row has)
RegisterCreate(slot) ==
    LET in == inflight[slot].in
        id == Len(users) + 1
        created == Append(users, NewUser(id, in.username, in.password,
                                         RegisteredVerified, in.profileName))
        mail == SendEmailIn(created, in.username, in.ip)
    IN  /\ At(slot, "Register", "create")
        /\ inflight' = EndCall(slot)
        /\ IF UniqueIndexViolated(created)
           THEN /\ ret' = Ret("RegisterCreate", in, ErrDuplicatedKey, 0)
                /\ UNCHANGED <<users, limiters, regTokens, nextReg>>
           ELSE /\ mail.minted => nextReg < MaxRegTokens
                /\ users' = created
                /\ limiters' = mail.lims
                /\ regTokens' = mail.cache
                /\ nextReg' = IF mail.minted THEN nextReg + 1 ELSE nextReg
                /\ ret' = Ret("RegisterCreate", in, NoError,
                              [id |-> UnsignedString(id), username |-> in.username])
        /\ UNCHANGED <<now, textures, tokens, texMaps, nextTok, sessions, smtpEnabled, keyVars, upVars>>

\* ChangeProfile up to the format test of the new name
ChangeProfileCount(accessToken, clientToken, changeTo, mojangHasName) ==
    LET in == [accessToken |-> accessToken, clientToken |-> clientToken,
               changeTo |-> changeTo, mojangHasName |-> mojangHasName]
        ver == VerifyToken(tokens, accessToken, clientToken)
        profile == tokens[accessToken].SelectedProfile
        fail(err) == /\ ret' = Ret("ChangeProfileCount", in, err, 0)
                     /\ UNCHANGED inflight
    IN  /\ DOMAIN inflight # 1..MaxInflight
        /\ tokens' = ver.toks
        /\ texMaps' = Collect(texMaps, ver.toks, sessions)
        /\ IF ver.level # Valid
           THEN fail(NewForbiddenOperationError(MessageInvalidToken))
           ELSE IF profile.Id \notin DOMAIN users
           THEN fail(NewForbiddenOperationError("User not found"))
           ELSE IF UserIdsByName(changeTo) # {}
           THEN fail(NewForbiddenOperationError("profileName exist"))
           ELSE IF mojangHasName
           THEN fail(NewForbiddenOperationError("profileName duplicate"))
           ELSE IF isInvalidProfileName(changeTo)
           THEN fail(NewForbiddenOperationError("bad format(profileName longer than 1)"))
           ELSE /\ inflight' = StartCall("ChangeProfile", "update", in, profile)
                /\ ret' = Ret("ChangeProfileCount", in, NoError, NewSlot)
        /\ UNCHANGED <<now, accountVars, nextTok, sessions, limiters, regVars, keyVars, upVars>>

\* ChangeProfile from the UPDATE of profile_name to its return
ChangeProfileUpdate(slot) ==
    LET in == inflight[slot].in
        profile == inflight[slot].local
        updated == [users EXCEPT ![profile.Id].ProfileName = in.changeTo]
        renamed == UpdateProfile(tokens, profile.Id, [profile EXCEPT !.Name = in.changeTo])
    IN  /\ At(slot, "ChangeProfile", "update")
        /\ inflight' = EndCall(slot)
        /\ IF UniqueIndexViolated(updated)
           THEN /\ ret' = Ret("ChangeProfileUpdate", in, ErrDuplicatedKey, 0)
                /\ texMaps' = [r \in HeldRefs(tokens, sessions, EndCall(slot)) |-> texMaps[r]]
                /\ UNCHANGED <<users, tokens>>
           ELSE /\ users' = updated
                /\ tokens' = renamed
                /\ texMaps' = [r \in HeldRefs(renamed, sessions, EndCall(slot)) |-> texMaps[r]]
                /\ ret' = Ret("ChangeProfileUpdate", in, NoError, 0)
        /\ UNCHANGED <<now, textures, nextTok, sessions, limiters, regVars, keyVars, upVars>>

-----------------------------------------------------------------------------
(* Initial states *)

\* two registered, verified accounts; empty caches
TwoAccounts ==
    [i \in {1, 2} |-> IF i = 1 THEN NewUser(1, "alice@example.com", "secret1", TRUE, "Alice")
                      ELSE NewUser(2, "bob@example.com", "secret2", TRUE, "Bob")]

InitCaches ==
    /\ now = 0
    /\ textures = << >>
    /\ texMaps = << >>
    /\ tokens = << >>
    /\ nextTok = 0
    /\ sessions = << >>
    /\ limiters = << >>
    /\ regTokens = << >>
    /\ nextReg = 0
    /\ requestCounter = 0
    /\ pool = NewUpstreamServicePool
    /\ keyPairCh = << >>
    /\ profileKeyCache = << >>
    /\ nextKey = 0
    /\ cachedPubKey = NilKeys
    /\ inflight = << >>
    /\ ret = Ret("none", 0, NoError, 0)

\* two verified accounts, no upstream configured (degraded mode)
InitAccounts ==
    /\ InitCaches
    /\ users = TwoAccounts
    /\ smtpEnabled = FALSE
    /\ ups = << >>

\* two verified accounts and every upstream of UpstreamIds configured
InitFederated ==
    /\ InitCaches
    /\ users = TwoAccounts
    /\ smtpEnabled = FALSE
    /\ ups = [id \in UpstreamIds |-> NewUpstreamState]

-----------------------------------------------------------------------------
(* The token lifecycle: login, refresh, validate, invalidate, signout, ageing *)

\* the instants around the two age thresholds of a token minted at 0 or later
TokenInstants ==
    {k * TokenNeedRefreshAge + s : k \in 0..2, s \in 0..MaxSeconds}
TokenClients == {NilClient, 2}
IssuedTokens == 1..LifecycleTokens \cup {ForeignToken}

NextToken ==
    \/ \E c \in TokenClients :
          Login("alice@example.com", "secret1", c) /\ nextTok' <= LifecycleTokens
    \/ \E a \in IssuedTokens, c \in TokenClients, sp \in BOOLEAN :
          Refresh(a, c, sp) /\ nextTok' <= LifecycleTokens
    \/ \E a \in IssuedTokens, c \in TokenClients : Validate(a, c)
    \/ \E a \in IssuedTokens : Invalidate(a)
    \/ \E a \in IssuedTokens : GetToken(a)
    \/ Tick(TokenInstants)

SpecToken == InitAccounts /\ [][NextToken]_vars


(* ---- C3 ---- *)
Day == 24 * 3600

C3_LevelOfAge(age) ==
    IF age <= 15 * Day THEN Valid
    ELSE IF age <= 30 * Day THEN NeedRefresh
    ELSE Invalid

\* C3: the availability level of every cached token is the stated function of
\* its age alone (Valid up to 15 days, NeedRefresh up to 30 days, Invalid
\* beyond), and as the clock advances the level of a token never moves back.
C3_LevelByAge ==
    /\ [](\A a \in DOMAIN tokens :
            GetAvailableLevel(tokens[a], now)
                = C3_LevelOfAge(now - tokens[a].createAt))
    /\ [][\A a \in DOMAIN tokens \cap DOMAIN tokens' :
            GetAvailableLevel(tokens'[a], now') >= GetAvailableLevel(tokens[a], now)]_vars

\* a token exactly 30 days old has just been reported NeedRefresh
C3_Witness ==
    /\ ret.op = "Validate"
    /\ ret.out.level = NeedRefresh
    /\ ret.in.accessToken \in DOMAIN tokens
    /\ now - tokens[ret.in.accessToken].createAt = 30 * Day

(* ---- C4 ---- *)
C4_Mismatch(t, clientToken) == clientToken # NilClient /\ t.ClientToken # clientToken

\* C4: a VerifyToken (made by Validate or Refresh) that finds a cached token
\* older than 30 days, with no client-token mismatch, answers Invalid and
\* evicts the token; a VerifyToken that answers Invalid only because the
\* client token differs leaves the token cached as it was; an evicted token
\* never comes back, and GetToken and VerifyToken find nothing for it.
C4_InvalidEvicts ==
    [][/\ \A a \in DOMAIN tokens :
            (ret'.op \in {"Validate", "Refresh"} /\ ret'.in.accessToken = a
                /\ (ret'.op = "Refresh" => ~ret'.in.selectedProfile))
            => /\ (~C4_Mismatch(tokens[a], ret'.in.clientToken)
                     /\ now - tokens[a].createAt > 30 * Day)
                  => /\ a \notin DOMAIN tokens'
                     /\ ret'.err = NewForbiddenOperationError(MessageInvalidToken)
                     /\ (ret'.op = "Validate" => ret'.out.level = Invalid)
               /\ C4_Mismatch(tokens[a], ret'.in.clientToken)
                  => /\ a \in DOMAIN tokens' /\ tokens'[a] = tokens[a]
                     /\ ret'.err = NewForbiddenOperationError(MessageInvalidToken)
                     /\ (ret'.op = "Validate" => ret'.out.level = Invalid)
       /\ \A a \in 1..nextTok :
            a \notin DOMAIN tokens
            => /\ a \notin DOMAIN tokens'
               /\ (ret'.op = "GetToken" /\ ret'.in.accessToken = a) => ret'.out = FALSE
               /\ (ret'.op = "Validate" /\ ret'.in.accessToken = a)
                  => ret'.out = [level |-> Invalid, found |-> FALSE]
      ]_vars

\* Validate has just found a token older than 30 days and evicted it
C4_Witness ==
    /\ ret.op = "Validate"
    /\ ret.out = [level |-> Invalid, found |-> TRUE]
    /\ ret.in.clientToken = NilClient
    /\ ret.in.accessToken \notin DOMAIN tokens

(* ---- C2 ---- *)
C2_Rotated(a) ==
    /\ ret'.err = NoError
    /\ ret'.out.accessToken # a
    /\ ret'.out.accessToken \in DOMAIN tokens'
    /\ GetAvailableLevel(tokens'[ret'.out.accessToken], now') = Valid
    /\ tokens'[ret'.out.accessToken].SelectedProfile.Id = tokens[a].SelectedProfile.Id
    /\ a \notin DOMAIN tokens'

C2_RefreshOf(a) ==
    /\ ret'.op = "Refresh"
    /\ ret'.in.accessToken = a
    /\ ~ret'.in.selectedProfile
    /\ AccessTokenLen(a) <= 36
    /\ GetAvailableLevel(tokens[a], now) \in {Valid, NeedRefresh}

C2_OldTokenDead ==
    \A a \in 1..nextTok :
        a \notin DOMAIN tokens
        => /\ a \notin DOMAIN tokens'
           /\ (ret'.op \in {"Validate", "Refresh"} /\ ret'.in.accessToken = a)
              => ret'.err # NoError
           /\ (ret'.op = "GetToken" /\ ret'.in.accessToken = a) => ret'.out = FALSE

\* C2 as stated: every Refresh, without selectedProfile, of a cached
\* locally-shaped token whose level is Valid or NeedRefresh succeeds and rotates.
C2_Original ==
    [][/\ \A a \in DOMAIN tokens : C2_RefreshOf(a) => C2_Rotated(a)
       /\ C2_OldTokenDead]_vars

\* C2 (amended): a Refresh, without selectedProfile, of a cached locally-shaped
\* token whose level is Valid or NeedRefresh, made with no client token or with
\* the token's own client token, succeeds, returns a new access token that is
\* cached, Valid and bound to the same account id, and removes the old access
\* token; a removed access token never comes back, so every later Validate,
\* Refresh or GetToken on it fails.
C2_RefreshRotates ==
    [][/\ \A a \in DOMAIN tokens :
            (C2_RefreshOf(a) /\ ~C4_Mismatch(tokens[a], ret'.in.clientToken))
            => C2_Rotated(a)
       /\ C2_OldTokenDead]_vars

\* a Refresh of a NeedRefresh token has just succeeded: the new token is cached
\* and the old one is gone
C2_Witness ==
    /\ ret.op = "Refresh"
    /\ ret.err = NoError
    /\ ret.in.accessToken \notin DOMAIN tokens
    /\ ret.out.accessToken \in DOMAIN tokens
    /\ now > TokenNeedRefreshAge
    /\ nextTok = 2

-----------------------------------------------------------------------------
(* Signout across accounts: logins of both accounts, signouts with right and  *)
(* wrong credentials and for an address without account, and limiter refill  *)

SignoutInstants == {5 * k : k \in 0..MaxSeconds}
SignoutEmails == Emails \cup {"nobody@example.com"}

NextSignout ==
    \/ Login("alice@example.com", "secret1", NilClient) /\ nextTok' <= LifecycleTokens
    \/ Login("bob@example.com", "secret2", NilClient) /\ nextTok' <= LifecycleTokens
    \/ \E e \in SignoutEmails, p \in Passwords : Signout(e, p)
    \/ Tick(SignoutInstants)

SpecSignout == InitAccounts /\ [][NextSignout]_vars

(* ---- C5 ---- *)
C5_SameToken(a) ==
    /\ a \in DOMAIN tokens'
    /\ tokens'[a] = tokens[a]
    /\ texMaps'[tokens'[a].SelectedProfile.Textures]
         = texMaps[tokens[a].SelectedProfile.Textures]

\* C5: after a Signout that succeeds, no cached token has the signed-out
\* account's id as its snapshot profile id, and every token of any other
\* account is still cached and unchanged; a Signout that fails (throttled,
\* unknown email, wrong password) removes no token and changes none.
C5_SignoutRevokesAccount ==
    [][ret'.op = "Signout"
       => IF ret'.err = NoError
          THEN \E id \in UserIdsByEmail(ret'.in.username) :
                  /\ \A a \in DOMAIN tokens' : tokens'[a].SelectedProfile.Id # id
                  /\ \A a \in DOMAIN tokens :
                        tokens[a].SelectedProfile.Id # id => C5_SameToken(a)
          ELSE /\ DOMAIN tokens' = DOMAIN tokens
               /\ \A a \in DOMAIN tokens : C5_SameToken(a)]_vars

\* both accounts had logged in; a Signout of one has succeeded and the other
\* account's token is still cached
C5_Witness ==
    /\ ret.op = "Signout"
    /\ ret.err = NoError
    /\ nextTok = 2
    /\ \E a \in DOMAIN tokens :
          users[tokens[a].SelectedProfile.Id].Email # ret.in.username

\* a Signout has been throttled while tokens are cached
C5_WitnessThrottled ==
    /\ ret.op = "Signout"
    /\ ret.err = TooManyRequests
    /\ tokens # << >>

-----------------------------------------------------------------------------
(* Texture bookkeeping: both accounts log in (an account may hold two tokens) *)
(* and upload and delete textures                                            *)

TextureAccounts == {1, 2}
TextureTokens == 1..Cardinality(TextureAccounts)

\* the profile id a caller declares: its token's own, or (DeleteTexture) any
OwnProfile(a) == tokens[a].SelectedProfile.Id

NextTexture ==
    \/ /\ nextTok < Cardinality(TextureAccounts)
       /\ \/ Login("alice@example.com", "secret1", NilClient)
          \/ Login("bob@example.com", "secret2", NilClient)
    \/ \E a \in DOMAIN tokens, t \in {"skin", "cape"} :
          UploadTexture(a, OwnProfile(a), "imgA", t)
    \/ \E a \in DOMAIN tokens, img \in {"imgB", Unreachable} :
          SetTexture(a, OwnProfile(a), img, "elytra")
    \/ \E a \in TextureTokens, id \in TextureAccounts, t \in {"skin", "CAPE"} :
          DeleteTexture(a, id, t)

SpecTexture == InitAccounts /\ [][NextTexture]_vars

(* ---- C1 ---- *)
\* the (account, slot) pairs whose persisted slot-to-hash map points at hash
C1_Referencers(hash) ==
    {p \in (DOMAIN users) \X Slots : <<p[2], hash>> \in users[p[1]].SerializedTextures}

\* C1: in every state reached by uploads and deletes made through any Valid
\* tokens, the reference count of each stored Texture row equals the number of
\* (account, slot) pairs whose persisted slot-to-hash map points at its hash.
C1_RefCountExact ==
    \A h \in DOMAIN textures : textures[h] = Cardinality(C1_Referencers(h))

\* two (account, slot) pairs share one row, counted twice
C1_Witness ==
    \E h \in DOMAIN textures : textures[h] = 2 /\ Cardinality(C1_Referencers(h)) = 2

-----------------------------------------------------------------------------
(* Sessions without federation: join and has-joined on local tokens *)

SessionInstants ==
    {base + s : base \in {0, SessionTtl, TokenNeedRefreshAge}, s \in 0..MaxSeconds}
SessionProfiles == {UnsignedString(1), HyphenatedString(1), UnsignedString(2)}
\* no upstream is configured: the per-upstream inputs are empty
NoCalls == << >>

NextSession ==
    \/ /\ nextTok < Cardinality(TextureAccounts)
       /\ \/ Login("alice@example.com", "secret1", NilClient)
          \/ Login("bob@example.com", "secret2", NilClient)
    \/ \E a \in TextureTokens \cup {ForeignToken}, p \in SessionProfiles :
          JoinServer(a, "S", p, "1.2.3.4", NoCalls, NoCalls)
    \/ \E n \in {"Alice", "Bob"}, ip \in {"", "1.2.3.4", "9.9.9.9"} :
          HasJoinedServer("S", n, ip, NoCalls, NoCalls)
    \/ Tick(SessionInstants)

SpecSession == InitAccounts /\ [][NextSession]_vars

(* ---- C6 ---- *)
\* the session a HasJoinedServer step finds, and whether the query matches it
C6_Fresh(s) == now - s.createAt <= 30
C6_Match(s, in) ==
    /\ in.username = s.Token.SelectedProfile.Name
    /\ in.ip = "" \/ in.ip = s.Ip

\* C6: a session recorded by JoinServer for server S with profile name N and
\* client IP A is confirmed by HasJoinedServer(S, N, A) and HasJoinedServer(S, N,
\* no ip); it is not confirmed for another IP B or another name M, and not by
\* any query made more than 30 seconds after the join.
C6_SessionConfirmation ==
    [][(ret'.op = "HasJoinedServer" /\ ret'.in.serverId \in DOMAIN sessions) =>
        LET s == sessions[ret'.in.serverId] IN
        /\ s.Ip = "1.2.3.4" /\ s.createAt <= now
        /\ (C6_Fresh(s) /\ C6_Match(s, ret'.in)) =>
              /\ ret'.err = NoError
              /\ ret'.out.name = s.Token.SelectedProfile.Name
              /\ ret'.out.id = UnsignedString(s.Token.SelectedProfile.Id)
        /\ ~(C6_Fresh(s) /\ C6_Match(s, ret'.in)) =>
              /\ ret'.err.status = 204
              /\ ret'.out = 0]_vars

\* a query with the joining IP is confirmed exactly 30 seconds after the join
C6_Witness ==
    /\ ret.op = "HasJoinedServer"
    /\ ret.err = NoError
    /\ ret.in.ip = "1.2.3.4"
    /\ ret.in.serverId \in DOMAIN sessions
    /\ now - sessions[ret.in.serverId].createAt = 30

\* a query is refused for a session still cached: other IP or other name
C6_WitnessMismatch ==
    /\ ret.op = "HasJoinedServer"
    /\ ret.err.status = 204
    /\ ret.in.serverId \in DOMAIN sessions

(* ---- C7 ---- *)
C7_Ok(in) ==
    /\ GetAvailableLevel(tokens[in.accessToken], now) = Valid
    /\ in.selectedProfile = UnsignedString(tokens[in.accessToken].SelectedProfile.Id)

\* C7: JoinServer on an access token of the local cache succeeds and records a
\* session under serverId iff the token is Valid and its snapshot profile id,
\* unhyphenated, equals the declared selectedProfile; otherwise it fails
\* Forbidden("Invalid token.") and leaves the session cache unchanged.
C7_JoinLocalToken ==
    [][(ret'.op = "JoinServer" /\ ret'.in.accessToken \in DOMAIN tokens) =>
        /\ C7_Ok(ret'.in) =>
              /\ ret'.err = NoError
              /\ DOMAIN sessions' = DOMAIN sessions \cup {ret'.in.serverId}
              /\ sessions'[ret'.in.serverId].Token = tokens[ret'.in.accessToken]
              /\ sessions'[ret'.in.serverId].Ip = ret'.in.ip
              /\ sessions'[ret'.in.serverId].createAt = now
              /\ \A s \in DOMAIN sessions \ {ret'.in.serverId} : sessions'[s] = sessions[s]
        /\ ~C7_Ok(ret'.in) =>
              /\ ret'.err = NewForbiddenOperationError("Invalid token.")
              /\ ret'.err.status = 403
              /\ sessions' = sessions]_vars

\* a join is refused while another token's session is recorded for the server
C7_Witness ==
    /\ ret.op = "JoinServer"
    /\ ret.in.accessToken \in DOMAIN tokens
    /\ ret.err = NewForbiddenOperationError("Invalid token.")
    /\ ret.in.serverId \in DOMAIN sessions
    /\ sessions[ret.in.serverId].Token.AccessToken # ret.in.accessToken

\* a join has recorded a session
C7_WitnessJoined ==
    /\ ret.op = "JoinServer"
    /\ ret.in.accessToken \in DOMAIN tokens
    /\ ret.err = NoError

-----------------------------------------------------------------------------
(* Registration with and without SMTP *)

\* an empty account table; the registration-token service enabled or not
InitRegister ==
    /\ InitCaches
    /\ users = << >>
    /\ smtpEnabled \in BOOLEAN
    /\ ups = << >>

\* instants around a registration token's validity (the e-mail limiter has
\* refilled by then)
RegisterInstants ==
    {base + s : base \in {0, RegTokenValidity}, s \in 0..MaxSeconds}
RegTokens == 0..MaxRegTokens

NextRegister ==
    \/ \E e \in {"alice@example.com", "bob@example.com"}, m \in BOOLEAN :
          Register(e, "secret1", "Alice", "1.2.3.4", m)
    \/ SendEmail("alice@example.com", "9.9.9.9")
    \/ \E a \in RegTokens : VerifyEmail(a)
    \/ \E a \in RegTokens : ResetPassword("alice@example.com", "secret1", a)
    \/ Login("alice@example.com", "secret1", NilClient) /\ nextTok' <= LifecycleTokens
    \/ Tick(RegisterInstants)

SpecRegister == InitRegister /\ [][NextRegister]_vars

(* ---- C8 ---- *)
\* C8: registration is SMTP-optional. When the registration-token service is
\* disabled a successful Register stores the account with its verification
\* flag already true; when it is enabled the account is stored with the flag
\* false, and the flag stays false until VerifyEmail succeeds with a token
\* minted for that address.
C8_RegisterVerification ==
    [][/\ (ret'.op = "Register" /\ ret'.err = NoError) =>
            /\ Len(users') = Len(users) + 1
            /\ users'[Len(users')].Email = ret'.in.username
            /\ users'[Len(users')].EmailVerified = ~smtpEnabled
       /\ \A i \in DOMAIN users :
            (~users[i].EmailVerified /\ users'[i].EmailVerified) =>
                /\ ret'.op = "VerifyEmail"
                /\ ret'.err = NoError
                /\ ret'.in.accessToken \in DOMAIN regTokens
                /\ regTokens[ret'.in.accessToken].Email = users[i].Email]_vars

\* with SMTP disabled an account has been registered and its owner's Login
\* with the right password has been answered
C8_Witness ==
    /\ ~smtpEnabled
    /\ ret.op = "Login"
    /\ ret.in.password = "secret1"
    /\ ret.err.status # 429
    /\ UserIdsByEmail(ret.in.username) # {}

-----------------------------------------------------------------------------
(* Login throttling from a limiter cache with no entries *)

\* within the first second, then after a refill of one token (5 s)
LimiterInstants == {0, 1} \cup {5 + s : s \in 0..MaxSeconds}

\* every attempt for alice carries her password, so each one that reaches
\* credential checking mints a token: nextTok counts them; bob's attempts
\* carry a wrong password
NextLimiter ==
    \/ Login("alice@example.com", "secret1", NilClient)
    \/ Login("bob@example.com", "secret1", NilClient)
    \/ Tick(LimiterInstants)

SpecLimiter == InitAccounts /\ [][NextLimiter]_vars

(* ---- C9 ---- *)
\* C9: Login throttling is a per-email token bucket with burst 3 and refill
\* 0.2/s: of the Login attempts for one email made within 1 second, starting
\* from a fresh limiter, at most 3 reach credential checking and a 4th is
\* rejected with the rate-limit error.
C9_BurstOfThree ==
    now <= 1 => nextTok <= 3

\* alice has been throttled while bob's attempt reached credential checking
C9_Witness ==
    /\ now <= 1
    /\ ret.op = "Login"
    /\ ret.in.username = "bob@example.com"
    /\ ret.err = NewForbiddenOperationError(MessageInvalidCredentials)
    /\ LimiterKey("", "alice@example.com") \in DOMAIN limiters
    /\ limiters[LimiterKey("", "alice@example.com")].tokens < 1000

-----------------------------------------------------------------------------
(* Federation: fan-outs to two upstreams for tokens and sessions that are *)
(* not local                                                               *)

UpstreamInstants == {0} \cup {RecoveryTimeout + s : s \in 0..MaxSeconds}
LookupCalls ==
    [UpstreamIds -> {HttpCreateError, HttpTransportError, HttpAnswer(200, "Carol"),
                     HttpAnswer(200, "Carla"), HttpAnswer(204, "")}]
JoinCalls == [UpstreamIds -> {HttpAnswer(204, ""), HttpAnswer(403, "")}]
HasJoinedCalls ==
    [UpstreamIds -> {HttpBodyError, HttpAnswer(200, BadJson), HttpAnswer(204, "")}]
QueryCalls == [UpstreamIds -> {HttpAnswer(204, ""), HttpAnswer(200, "Carol")}]
CollectCalls ==
    [UpstreamIds -> {HttpAnswer(200, "Carol"), HttpAnswer(200, BadJson),
                     HttpAnswer(500, "")}]
FirstOrder == CHOOSE q \in Orders(UpstreamIds) : TRUE

NextUpstream ==
    \/ \E calls \in LookupCalls, q \in Orders(UpstreamIds) :
          LookupProfile(UnsignedString(3), calls, q)
    \/ \E calls \in JoinCalls :
          JoinServer(ForeignToken, "S", UnsignedString(3), "1.2.3.4", calls, FirstOrder)
    \/ \E calls \in HasJoinedCalls :
          HasJoinedServer("S", "Carol", "", calls, FirstOrder)
    \/ \E calls \in QueryCalls : LookupByName("Carol", calls, FirstOrder)
    \/ \E calls \in QueryCalls : LookupByUUID(UnsignedString(3), calls, FirstOrder)
    \/ \E calls \in CollectCalls : LookupBulkProfiles({"Carol"}, calls, FirstOrder)
    \/ \E calls \in CollectCalls : GetPublicKeys(calls, FirstOrder)
    \/ Tick(UpstreamInstants)

SpecUpstream == InitFederated /\ [][NextUpstream]_vars

(* ---- C10 ---- *)
\* the per-upstream request errored at transport level or was answered non-2xx
C10_Failed(o) ==
    \/ o.kind = "transport"
    \/ o.kind = "body"
    \/ o.kind = "http" /\ (o.status < 200 \/ o.status >= 300)

C10_FanOut(r) ==
    \/ r.op = "LookupProfile"
    \/ r.op = "JoinServer" /\ r.in.accessToken \notin DOMAIN tokens

\* C10: whenever a per-upstream call of a fan-out errors at transport level
\* (connection failure, timeout, body read error) or returns a non-2xx answer,
\* that upstream becomes Unavailable, its last error and last-failure time are
\* recorded, its failure count is incremented and RetryAt = now + RecoveryTimeout.
C10_FailureMarksUnavailable ==
    [][C10_FanOut(ret') =>
        \A id \in ret'.out.called :
            C10_Failed(ret'.in.calls[id]) =>
                /\ ups'[id].Status = StatusUnavailable
                /\ ups'[id].LastErr # NilErr
                /\ ups'[id].LastFail = now
                /\ ups'[id].FailCnt = ups[id].FailCnt + 1
                /\ ups'[id].RetryAt = now + RecoveryTimeout]_vars

\* a fan-out has met a failing upstream: a request that could not be created
\* left its upstream Unavailable while a refused one was counted a success
C10_Witness ==
    /\ ret.op = "LookupProfile"
    /\ \E id \in ret.out.called :
          /\ ret.in.calls[id].kind = "create"
          /\ ups[id].Status = StatusUnavailable
    /\ \E id \in ret.out.called :
          /\ ret.in.calls[id].kind = "transport"
          /\ ups[id].Status = StatusAvailable

(* ---- C11 ---- *)
\* the upstreams a fan-out that finds counter requests counted must call
C11_Eligible(counter) ==
    {id \in DOMAIN ups :
        \/ ups[id].Status = StatusAvailable
        \/ now > ups[id].RetryAt
        \/ counter % RetryInterval = 0}

\* the request met an answer the operation counts a success
C11_Succeeds(r, o) ==
    /\ o.kind = "http"
    /\ o.status >= 200 /\ o.status < 300
    /\ r.op = "LookupProfile" => o.status # 204

\* C11: a fan-out calls every Available upstream, and an Unavailable one only
\* if the time is after its RetryAt or the request counter, incremented once by
\* the operation, is a multiple of the retry interval; a call to an Unavailable
\* upstream that succeeds makes it Available again and clears its last error.
C11_CircuitBreaker ==
    [][C10_FanOut(ret') =>
        /\ requestCounter' = requestCounter + 1
        /\ ret'.out.called = C11_Eligible(requestCounter')
        /\ \A id \in ret'.out.called :
              (ups[id].Status = StatusUnavailable
                 /\ C11_Succeeds(ret', ret'.in.calls[id])) =>
                    /\ ups'[id].Status = StatusAvailable
                    /\ ups'[id].LastErr = NilErr]_vars

\* an Unavailable upstream whose RetryAt has not passed was probed because the
\* counter reached a multiple of the interval, answered, and is Available again,
\* while the other upstream, called on the same fan-out, is Unavailable
C11_Witness ==
    /\ ret.op = "LookupProfile"
    /\ requestCounter % RetryInterval = 0
    /\ \E id \in ret.out.called :
          /\ ups[id].FailCnt > 0
          /\ now <= ups[id].RetryAt
          /\ ups[id].Status = StatusAvailable
          /\ ret.in.calls[id] = HttpAnswer(200, "Carol")

\* an Unavailable upstream was left out of a fan-out
C11_WitnessExcluded ==
    /\ ret.op = "LookupProfile"
    /\ \E id \in DOMAIN ups \ ret.out.called :
          /\ ups[id].Status = StatusUnavailable
          /\ now <= ups[id].RetryAt
          /\ requestCounter % RetryInterval # 0

(* ---- C12 ---- *)
\* the upstreams of a LookupProfile fan-out whose response is a success
C12_Successes(r) ==
    {id \in r.out.called :
        /\ r.in.calls[id].kind = "http"
        /\ r.in.calls[id].status >= 200 /\ r.in.calls[id].status < 300
        /\ r.in.calls[id].status # 204}

\* the success that arrives before every other success, in the order r.in.order
C12_First(r) ==
    CHOOSE id \in C12_Successes(r) :
        \A i, j \in DOMAIN r.in.order :
            (r.in.order[i] = id /\ r.in.order[j] \in C12_Successes(r)) => i <= j

\* C12: for every arrival order of the responses of the eligible upstreams, the
\* operation succeeds iff some arriving response is a success, its result is the
\* first success in arrival order whatever failures arrived before it, and only
\* a fan-out without any success fails with "all upstream services failed".
C12_RaceToSuccess ==
    [][ret'.op = "LookupProfile" =>
        /\ C12_Successes(ret') # {} =>
              /\ ret'.err = NoError
              /\ ret'.out.profile = ret'.in.calls[C12_First(ret')].body
        /\ C12_Successes(ret') = {} =>
              /\ ret'.out.profile = NoResult
              /\ \/ ret'.err = PlainError("all upstream services failed")
                 \/ /\ ret'.err = NoError
                    /\ ret'.out.called # {}
                    /\ \A id \in ret'.out.called :
                          ret'.in.calls[id].status = 204
        /\ ret'.err.msg = "all upstream services failed" =>
              C12_Successes(ret') = {}]_vars

\* a failure arrived first and the success that arrived after it is the result,
\* on a fan-out that called both upstreams
C12_Witness ==
    /\ ret.op = "LookupProfile"
    /\ ret.err = NoError
    /\ ret.out.called = UpstreamIds
    /\ ret.in.order[1] \notin C12_Successes(ret)
    /\ ret.out.profile = ret.in.calls[ret.in.order[2]].body

\* two successes with different bodies arrived: the first one is the result
C12_WitnessTwo ==
    /\ ret.op = "LookupProfile"
    /\ C12_Successes(ret) = UpstreamIds
    /\ ret.in.calls[ret.in.order[1]].body # ret.in.calls[ret.in.order[2]].body
    /\ ret.out.profile = ret.in.calls[ret.in.order[1]].body

(* ---- C13 ---- *)
C13_Query(r) ==
    \/ r.op \in {"LookupProfile", "LookupByName", "LookupByUUID"}
    \/ r.op = "HasJoinedServer" /\ r.in.serverId \notin DOMAIN sessions

C13_Join(r) == r.op = "JoinServer" /\ r.in.accessToken \notin DOMAIN tokens

\* the upstreams the fan-out of this step calls
C13_Called == C11_Eligible(requestCounter + 1)

C13_Is204(o) == o.kind = "http" /\ o.status = 204

\* C13: a query fan-out in which every eligible upstream answers 204 returns no
\* result and no error and leaves no called upstream Unavailable; in
\* VerifySession a 204 answer of an eligible upstream is a success: the join
\* returns without error.
C13_NoContentDuality ==
    [][/\ (C13_Query(ret') /\ C13_Called # {}
              /\ \A id \in C13_Called : C13_Is204(ret'.in.calls[id])) =>
            /\ IF ret'.op = "HasJoinedServer"
               THEN ret'.err = NoContent /\ ret'.out = 0
               ELSE ret'.err = NoError /\ ret'.out.profile = NoResult
            /\ \A id \in C13_Called :
                  /\ ups'[id].Status = StatusAvailable
                  /\ ups'[id].FailCnt = ups[id].FailCnt
       /\ (C13_Join(ret') /\ \E id \in C13_Called : C13_Is204(ret'.in.calls[id])) =>
            ret'.err = NoError]_vars

\* every upstream answered 204 to a profile query that called both, one of
\* them on a probe after a failure
C13_Witness ==
    /\ ret.op = "LookupProfile"
    /\ ret.out.called = UpstreamIds
    /\ \A id \in UpstreamIds : C13_Is204(ret.in.calls[id])
    /\ ret.err = NoError
    /\ ret.out.profile = NoResult
    /\ \E id \in UpstreamIds : ups[id].FailCnt > 0

\* a join was accepted on the 204 of one upstream while the other refused
C13_WitnessJoin ==
    /\ ret.op = "JoinServer"
    /\ ret.err = NoError
    /\ ret.out.called = UpstreamIds
    /\ \E id \in UpstreamIds : ret.in.calls[id].status = 403

\* HasJoined met 204 from every upstream and the handler answered 204
C13_WitnessHasJoined ==
    /\ ret.op = "HasJoinedServer"
    /\ ret.err = NoContent
    /\ \A id \in UpstreamIds : C13_Is204(ret.in.calls[id])

-----------------------------------------------------------------------------
(* Degraded mode: the federation service constructed with no upstream *)

DegradedInstants == {1 + s : s \in 0..MaxSeconds}
DegradedCalls == [UpstreamIds -> {HttpAnswer(200, "Carol"), HttpAnswer(204, "")}]

NextDegraded ==
    \/ \E calls \in DegradedCalls, q \in Orders(UpstreamIds) :
          LookupProfile(UnsignedString(3), calls, q)
    \/ \E calls \in DegradedCalls : LookupByName("Carol", calls, FirstOrder)
    \/ \E calls \in DegradedCalls : LookupByUUID(UnsignedString(3), calls, FirstOrder)
    \/ \E calls \in DegradedCalls : LookupBulkProfiles({"Carol"}, calls, FirstOrder)
    \/ \E calls \in DegradedCalls : GetPublicKeys(calls, FirstOrder)
    \/ \E a \in {ForeignToken, 1}, calls \in DegradedCalls :
          JoinServer(a, "S", UnsignedString(1), "1.2.3.4", calls, FirstOrder)
    \/ \E n \in {"Alice", "Carol"}, calls \in DegradedCalls :
          HasJoinedServer("S", n, "", calls, FirstOrder)
    \/ Login("alice@example.com", "secret1", NilClient) /\ nextTok' <= 1
    \/ Tick(DegradedInstants)

SpecDegraded == InitAccounts /\ [][NextDegraded]_vars

(* ---- C14 ---- *)
\* the step went to the federation service
C14_Federation(r) ==
    \/ r.op \in {"LookupProfile", "LookupByName", "LookupByUUID",
                 "LookupBulkProfiles", "GetPublicKeys"}
    \/ r.op = "JoinServer" /\ r.in.accessToken \notin DOMAIN tokens
    \/ r.op = "HasJoinedServer" /\ r.in.serverId \notin DOMAIN sessions

\* C14: with zero upstreams LookupProfile, LookupByName, LookupByUUID,
\* LookupBulkProfiles and HasJoined return no result and no error, VerifySession
\* returns no error and GetPublicKeys returns an error; none of them takes a
\* pool permit, increments the request counter or starts a per-upstream task.
C14_DegradedMode ==
    [][(C14_Federation(ret') /\ DOMAIN ups = {}) =>
        /\ ret'.op \in {"LookupProfile", "LookupByName", "LookupByUUID",
                        "LookupBulkProfiles"} =>
              ret'.err = NoError /\ ret'.out.profile = NoResult
        /\ ret'.op = "HasJoinedServer" => ret'.err = NoContent /\ ret'.out = 0
        /\ ret'.op = "JoinServer" => ret'.err = NoError
        /\ ret'.op = "GetPublicKeys" =>
              ret'.err.status # 200 /\ ret'.err.msg # ""
        /\ ret'.op # "HasJoinedServer" => ret'.out.called = {}
        /\ pool' = pool
        /\ pool.TotalRequests = 0
        /\ requestCounter' = requestCounter
        /\ requestCounter = 0
        /\ ups' = ups]_vars

\* GetPublicKeys has failed in degraded mode after the other operations ran
C14_Witness ==
    /\ DOMAIN ups = {}
    /\ ret.op = "GetPublicKeys"
    /\ ret.err.status # 200
    /\ requestCounter = 0
    /\ pool.TotalRequests = 0
    /\ now > 0

\* a join with a token that is not local was accepted in degraded mode
C14_WitnessVerify ==
    /\ DOMAIN ups = {}
    /\ ret.op = "JoinServer"
    /\ ret.in.accessToken \notin DOMAIN tokens
    /\ ret.err = NoError

(* ---- C15 ---- *)
\* the persisted slot map of account id points at hash in a slot
C15_Holds(id, slot, hash) == <<slot, hash>> \in users[id].SerializedTextures

\* the other (account, slot) pairs whose persisted map points at hash
C15_Others(hash, id, slot) ==
    {p \in (DOMAIN users) \X Slots :
        p # <<id, slot>> /\ C15_Holds(p[1], p[2], hash)}

C15_Hashes == {ComputeTextureId(img) : img \in Images}

C15_Stored(r) == r.op \in {"UploadTexture", "SetTexture"} /\ r.err = NoError

C15_Deleted(r) == r.op = "DeleteTexture" /\ r.err = NoError

\* C15: content uploaded by n accounts has one row whose count is n; a
\* DeleteTexture by an account that holds the content lowers the count by one
\* and keeps the row while other referencers remain, and the DeleteTexture of
\* the last referencer deletes the row.
C15_SharedContent ==
    [][/\ C15_Stored(ret') =>
            LET h == ComputeTextureId(ret'.in.image)
                slot == NormalizeTextureType(ret'.in.textureType)
            IN  /\ h \in DOMAIN textures'
                /\ textures'[h] = Cardinality(C15_Others(h, ret'.in.profileId, slot)) + 1
       /\ C15_Deleted(ret') =>
            LET slot == NormalizeTextureType(ret'.in.textureType) IN
            \A h \in C15_Hashes :
                C15_Holds(ret'.in.profileId, slot, h) =>
                  IF C15_Others(h, ret'.in.profileId, slot) # {}
                  THEN /\ h \in DOMAIN textures /\ h \in DOMAIN textures'
                       /\ textures'[h] = textures[h] - 1
                  ELSE h \notin DOMAIN textures']_vars

\* two accounts shared one row counted twice and one of them has deleted its
\* reference: the row is kept with count 1
C15_Witness ==
    /\ ret.op = "DeleteTexture"
    /\ ret.err = NoError
    /\ users[ret.in.profileId].SerializedTextures = {}
    /\ \E h \in DOMAIN textures :
          /\ textures[h] = 1
          /\ \E id \in DOMAIN users \ {ret.in.profileId} :
                C15_Holds(id, NormalizeTextureType(ret.in.textureType), h)

(* ---- C16 ---- *)
\* C16: an upload, to a slot, of content whose hash the account already has
\* in that slot leaves the rows' reference counts and the account's slot map
\* as they were.
C16_ReuploadIdempotent ==
    [][(C15_Stored(ret')
          /\ C15_Holds(ret'.in.profileId, NormalizeTextureType(ret'.in.textureType),
                       ComputeTextureId(ret'.in.image))) =>
        /\ textures' = textures
        /\ users'[ret'.in.profileId].SerializedTextures
              = users[ret'.in.profileId].SerializedTextures]_vars

\* content shared by two accounts was uploaded again by one of them: the
\* count is still 2
C16_Witness ==
    /\ C15_Stored(ret)
    /\ LET h == ComputeTextureId(ret.in.image)
           slot == NormalizeTextureType(ret.in.textureType)
       IN  /\ h \in DOMAIN textures
           /\ textures[h] = 2
           /\ \A id \in DOMAIN users : users[id].SerializedTextures = {<<slot, h>>}

(* ---- C17 ---- *)
\* C17: an upload of content B to a slot that points at another hash A leaves
\* the slot pointing at B, B's row with count 1 (new) or one more (existing),
\* and A's row deleted if the account was its only referencer, else one lower.
C17_SlotReplacement ==
    [][C15_Stored(ret') =>
        LET id == ret'.in.profileId
            slot == NormalizeTextureType(ret'.in.textureType)
            B == ComputeTextureId(ret'.in.image)
        IN  \A A \in C15_Hashes \ {B} :
              C15_Holds(id, slot, A) =>
                /\ <<slot, B>> \in users'[id].SerializedTextures
                /\ <<slot, A>> \notin users'[id].SerializedTextures
                /\ B \in DOMAIN textures'
                /\ textures'[B] = IF B \in DOMAIN textures THEN textures[B] + 1 ELSE 1
                /\ IF C15_Others(A, id, slot) = {}
                   THEN A \notin DOMAIN textures'
                   ELSE /\ A \in DOMAIN textures /\ A \in DOMAIN textures'
                        /\ textures'[A] = textures[A] - 1]_vars

\* a replacement moved the account's reference from a row shared with the
\* other account (now counted once) to a row that existed (now counted twice)
C17_Witness ==
    /\ C15_Stored(ret)
    /\ ret.in.image = "imgB"
    /\ ComputeTextureId("imgB") \in DOMAIN textures
    /\ textures[ComputeTextureId("imgB")] = 2
    /\ ComputeTextureId("imgA") \in DOMAIN textures
    /\ textures[ComputeTextureId("imgA")] = 1
    /\ C15_Holds(3 - ret.in.profileId, "CAPE", ComputeTextureId("imgA"))
    /\ C15_Holds(3 - ret.in.profileId, "SKIN", ComputeTextureId("imgB"))

-----------------------------------------------------------------------------
(* Renaming: accounts holding several tokens change their profile name *)

ProfileTokens == Cardinality(TextureAccounts) + 1
ProfileInstants == {TokenNeedRefreshAge + 1, TokenInvalidAge + 1}
\* the requests made: two that can succeed and one for each way to fail
ProfileRequests ==
    {<<NilClient, "Carol", FALSE>>, <<NilClient, "Dave", FALSE>>,
     <<2, "Carol", FALSE>>, <<NilClient, "Bob", FALSE>>,
     <<NilClient, "Carol", TRUE>>, <<NilClient, "A", FALSE>>}

NextProfile ==
    \/ /\ nextTok < ProfileTokens
       /\ \/ Login("alice@example.com", "secret1", NilClient)
          \/ Login("bob@example.com", "secret2", NilClient)
    \/ \E a \in 0..ProfileTokens, r \in ProfileRequests :
          ChangeProfile(a, r[1], r[2], r[3])
    \/ Tick(ProfileInstants)

SpecProfile == InitAccounts /\ [][NextProfile]_vars

(* ---- C18 ---- *)
\* the account the token of a ChangeProfile step belongs to
C18_Account(in) == tokens[in.accessToken].SelectedProfile.Id

\* a reason for ChangeProfile to fail
C18_MustFail(in) ==
    \/ in.accessToken \notin DOMAIN tokens
    \/ in.clientToken # NilClient /\ tokens[in.accessToken].ClientToken # in.clientToken
    \/ GetAvailableLevel(tokens[in.accessToken], now) # Valid
    \/ \E id \in DOMAIN users : users[id].ProfileName = in.changeTo
    \/ in.mojangHasName
    \/ in.changeTo = "A"

\* C18: after a successful ChangeProfile to N every cached token of the
\* account has snapshot name N, the persisted account is named N, and the
\* snapshots of other accounts' tokens are unchanged; a ChangeProfile that
\* fails (token not Valid, name taken locally or officially, bad format)
\* changes neither the persisted names nor any token snapshot.
C18_RenamePropagates ==
    [][ret'.op = "ChangeProfile" =>
        /\ C18_MustFail(ret'.in) <=> ret'.err # NoError
        /\ ret'.err = NoError =>
              LET id == C18_Account(ret'.in) IN
              /\ users'[id].ProfileName = ret'.in.changeTo
              /\ \A u \in DOMAIN users \ {id} : users'[u] = users[u]
              /\ DOMAIN tokens' = DOMAIN tokens
              /\ \A a \in DOMAIN tokens :
                    IF tokens[a].SelectedProfile.Id = id
                    THEN /\ tokens'[a].SelectedProfile.Name = ret'.in.changeTo
                         /\ tokens'[a].SelectedProfile.Id = id
                    ELSE tokens'[a] = tokens[a]
        /\ ret'.err # NoError =>
              /\ users' = users
              /\ \A a \in DOMAIN tokens' : tokens'[a] = tokens[a]]_vars

\* an account holding two tokens was renamed: both snapshots carry the new
\* name while the token of the other account keeps its own
C18_Witness ==
    /\ ret.op = "ChangeProfile"
    /\ ret.err = NoError
    /\ \E a, b, c \in DOMAIN tokens :
          /\ a # b
          /\ tokens[a].SelectedProfile.Id = tokens[b].SelectedProfile.Id
          /\ tokens[a].SelectedProfile.Name = ret.in.changeTo
          /\ tokens[b].SelectedProfile.Name = ret.in.changeTo
          /\ users[tokens[a].SelectedProfile.Id].ProfileName = ret.in.changeTo
          /\ tokens[c].SelectedProfile.Id # tokens[a].SelectedProfile.Id
          /\ tokens[c].SelectedProfile.Name = users[tokens[c].SelectedProfile.Id].ProfileName

\* a rename was refused because the official service knows the name
C18_WitnessRefused ==
    /\ ret.op = "ChangeProfile"
    /\ ret.err = NewForbiddenOperationError("profileName duplicate")

-----------------------------------------------------------------------------
(* Registration tokens: minted by SendEmail for two unverified accounts, *)
(* exchanged by VerifyEmail and ResetPassword                            *)

\* what Register leaves with SMTP enabled: accounts not yet verified
InitReset ==
    /\ InitCaches
    /\ users = [i \in {1, 2} |->
                  IF i = 1 THEN NewUser(1, "alice@example.com", "secret1", FALSE, "Alice")
                  ELSE NewUser(2, "bob@example.com", "secret2", FALSE, "Bob")]
    /\ smtpEnabled = TRUE
    /\ ups = << >>

\* instants at which tokens are minted and at which they turn 10 minutes old
ResetInstants == {1} \cup {RegTokenValidity + s : s \in 0..MaxSeconds}

NextReset ==
    \/ \E e \in Emails : SendEmail(e, IF e = "alice@example.com" THEN "1.2.3.4" ELSE "9.9.9.9")
    \/ \E a \in RegTokens : VerifyEmail(a)
    \/ \E e \in Emails \cup {"nobody@example.com"}, p \in {"secret3", "12345"}, a \in RegTokens :
          ResetPassword(e, p, a)
    \/ Tick(ResetInstants)

SpecReset == InitReset /\ [][NextReset]_vars

(* ---- C38 ---- *)
\* the ResetPassword call of r names an account and a token that is cached and
\* younger than ten minutes
C38_Exchanges(r) ==
    /\ r.op = "ResetPassword"
    /\ \E id \in DOMAIN users : users[id].Email = r.in.email
    /\ r.in.accessToken \in DOMAIN regTokens
    /\ now - regTokens[r.in.accessToken].createAt < 600

\* C38: ResetPassword consumes the registration token whenever the token is
\* cached and unexpired and the target email belongs to an account, also when
\* the call then fails because the token is bound to another email or the new
\* password has fewer than 6 characters; such a failed call leaves the accounts
\* unchanged, a consumed token never comes back, and a later call with it
\* fails as an invalid token.
C38_FailedResetConsumesToken ==
    [][/\ C38_Exchanges(ret') =>
            /\ ret'.in.accessToken \notin DOMAIN regTokens'
            /\ regTokens[ret'.in.accessToken].Email # ret'.in.email =>
                  /\ ret'.err = NewIllegalArgumentError("email invalid")
                  /\ users' = users
            /\ (/\ regTokens[ret'.in.accessToken].Email = ret'.in.email
                /\ ret'.in.password = "12345") =>
                  /\ ret'.err = NewIllegalArgumentError("bad format(password longer than 5)")
                  /\ users' = users
       /\ (/\ ret'.op = "ResetPassword"
           /\ \E id \in DOMAIN users : users[id].Email = ret'.in.email
           /\ ret'.in.accessToken \notin DOMAIN regTokens) =>
            /\ ret'.err = NewIllegalArgumentError(MessageInvalidToken)
            /\ users' = users
            /\ regTokens' = regTokens
       /\ DOMAIN regTokens \subseteq 1..nextReg
       /\ nextReg' >= nextReg
       /\ DOMAIN regTokens' \ DOMAIN regTokens \subseteq {nextReg + 1}]_vars

\* the first token minted was consumed by a reset that failed (no password has
\* changed and no address is verified), within its ten minutes, and a retry with
\* it has been refused as an invalid token
C38_Witness ==
    /\ ret.op = "ResetPassword"
    /\ ret.in.accessToken = 1
    /\ ret.in.email \in Emails
    /\ ret.err = NewIllegalArgumentError(MessageInvalidToken)
    /\ nextReg >= 1
    /\ 1 \notin DOMAIN regTokens
    /\ now < RegTokenValidity
    /\ \A id \in DOMAIN users :
          /\ ~users[id].EmailVerified
          /\ users[id].Password \in {HashPassword("secret1"), HashPassword("secret2")}

\* a reset with a token bound to the other address has failed and used it up
C38_WitnessOtherEmail ==
    /\ ret.op = "ResetPassword"
    /\ ret.err = NewIllegalArgumentError("email invalid")
    /\ ret.in.accessToken \notin DOMAIN regTokens

\* a reset with a short password has failed and used the token up
C38_WitnessShortPassword ==
    /\ ret.op = "ResetPassword"
    /\ ret.err = NewIllegalArgumentError("bad format(password longer than 5)")
    /\ ret.in.accessToken \notin DOMAIN regTokens

(* ---- C19 ---- *)
\* the step called regTokenServiceImpl.VerifyToken on the access token
C19_Exchange(r) ==
    \/ r.op = "VerifyEmail"
    \/ r.op = "ResetPassword" /\ \E id \in DOMAIN users : users[id].Email = r.in.email

C19_Token(r) == r.in.accessToken

\* C19: a registration token is exchanged by VerifyToken at most once and only
\* while it is younger than 10 minutes: the first exchange within 10 minutes
\* yields the bound email and removes the token; every exchange after it, or
\* after the 10 minutes, fails with InvalidInput.
C19_SingleUse ==
    [][/\ C19_Exchange(ret') =>
            LET a == C19_Token(ret') IN
            IF a \in DOMAIN regTokens /\ now - regTokens[a].createAt < 600
            THEN /\ DOMAIN regTokens' = DOMAIN regTokens \ {a}
                 /\ ret'.op = "VerifyEmail" =>
                       /\ ret'.err = NoError
                       /\ \A id \in DOMAIN users :
                             users'[id].EmailVerified =
                                (users[id].EmailVerified \/ users[id].Email = regTokens[a].Email)
                 /\ ret'.op = "ResetPassword" =>
                       (ret'.err = NoError => ret'.in.email = regTokens[a].Email)
            ELSE /\ ret'.err.status = 400
                 /\ ret'.err.code = "IllegalArgumentException"
                 /\ regTokens' = regTokens
                 /\ users' = users
       /\ \A a \in 1..nextReg : a \notin DOMAIN regTokens => a \notin DOMAIN regTokens']_vars

\* a token already exchanged was presented again, within its 10 minutes, and
\* refused
C19_Witness ==
    /\ ret.op = "VerifyEmail"
    /\ ret.err = NewIllegalArgumentError(MessageInvalidToken)
    /\ ret.in.accessToken \in 1..nextReg
    /\ now < RegTokenValidity
    /\ \E id \in DOMAIN users : users[id].EmailVerified

\* a token exactly 10 minutes old was refused and stays cached
C19_WitnessExpired ==
    /\ ret.op = "VerifyEmail"
    /\ ret.err.status = 400
    /\ ret.in.accessToken \in DOMAIN regTokens
    /\ now - regTokens[ret.in.accessToken].createAt = RegTokenValidity

\* a token 10 minutes less one second old was exchanged
C19_WitnessYoung ==
    /\ ret.op = "VerifyEmail"
    /\ ret.err = NoError
    /\ now = RegTokenValidity

(* ---- C20 ---- *)
\* the step changed the password or the verification flag of account id
C20_Changed(id) ==
    \/ users'[id].Password # users[id].Password
    \/ users'[id].EmailVerified # users[id].EmailVerified

\* C20: ResetPassword changes the password and verification flag of the
\* account with email E only with a token minted for exactly E; in no sequence
\* of SendEmail, VerifyEmail and ResetPassword calls does a token minted for A
\* change the password or the flag of an account with another address B.
C20_TokenBoundToEmail ==
    [][\A id \in DOMAIN users :
          C20_Changed(id) =>
              /\ ret'.op \in {"VerifyEmail", "ResetPassword"}
              /\ ret'.in.accessToken \in DOMAIN regTokens
              /\ regTokens[ret'.in.accessToken].Email = users[id].Email
              /\ ret'.op = "ResetPassword" => ret'.in.email = users[id].Email]_vars

\* a token minted for one address was presented to reset the other account,
\* still young: it was refused, the account is untouched and the token is gone
C20_Witness ==
    /\ ret.op = "ResetPassword"
    /\ ret.err = NewIllegalArgumentError("email invalid")
    /\ ret.in.password = "secret3"
    /\ \E id \in DOMAIN users :
          /\ users[id].Email = ret.in.email
          /\ users[id].Password = HashPassword(IF id = 1 THEN "secret1" ELSE "secret2")
          /\ ~users[id].EmailVerified
    /\ ret.in.accessToken \in 1..nextReg
    /\ ret.in.accessToken \notin DOMAIN regTokens

\* a reset with the account's own token went through
C20_WitnessReset ==
    /\ ret.op = "ResetPassword"
    /\ ret.err = NoError
    /\ \E id \in DOMAIN users :
          /\ users[id].Email = ret.in.email
          /\ users[id].Password = HashPassword("secret3")
          /\ users[id].EmailVerified

-----------------------------------------------------------------------------
(* Accounts created, renamed, verified and reset by concurrent requests *)

InitUnique ==
    /\ InitCaches
    /\ users = TwoAccounts
    /\ smtpEnabled = TRUE
    /\ ups = << >>

\* <<email, profile name>> of the registrations requested
UniqueRegistrations ==
    {<<"nobody@example.com", "Carol">>, <<"nobody@example.com", "Dave">>,
     <<"alice@example.com", "Dave">>}
UniqueRenames == {"Carol", "Bob"}
UniqueSlots == 1..MaxInflight

NextUnique ==
    \/ \E e \in Emails :
          /\ Login(e, IF e = "alice@example.com" THEN "secret1" ELSE "secret2", NilClient)
          /\ nextTok' <= LifecycleTokens
    \/ \E r \in UniqueRegistrations :
          RegisterCountEmail(r[1], "secret3", r[2], "1.2.3.4", FALSE)
    \/ \E s \in UniqueSlots : RegisterCountName(s)
    \/ \E s \in UniqueSlots : RegisterCreate(s)
    \/ \E a \in 1..LifecycleTokens, n \in UniqueRenames :
          ChangeProfileCount(a, NilClient, n, FALSE)
    \/ \E s \in UniqueSlots : ChangeProfileUpdate(s)
    \/ \E a \in 1..MaxRegTokens : VerifyEmail(a)
    \/ \E a \in 1..MaxRegTokens : ResetPassword("nobody@example.com", "secret1", a)

SpecUnique == InitUnique /\ [][NextUnique]_vars

(* ---- C21 ---- *)
C21_Distinct ==
    \A i, j \in DOMAIN users :
        i # j => /\ users[i].Email # users[j].Email
                 /\ users[i].ProfileName # users[j].ProfileName
                 /\ users[i].ID # users[j].ID

\* C21: in every state reachable by any interleaving of Register,
\* ChangeProfile, VerifyEmail and ResetPassword calls, no two accounts have
\* the same email, no two have the same display name, and an account's UUID
\* never changes after creation and never equals the UUID of another account.
C21_AccountIdentity ==
    /\ []C21_Distinct
    /\ [][\A i \in DOMAIN users :
             i \in DOMAIN users' /\ users'[i].ID = users[i].ID]_vars

\* two registrations of one address both passed the count; the second
\* db.Create was refused and the table holds the address once
C21_Witness ==
    /\ ret.op = "RegisterCreate"
    /\ ret.err = ErrDuplicatedKey
    /\ Cardinality(UserIdsByEmail(ret.in.username)) = 1
    /\ Len(users) = 3

\* a rename raced a registration of the same name and lost
C21_WitnessRename ==
    /\ ret.op = "ChangeProfileUpdate"
    /\ ret.err = ErrDuplicatedKey
    /\ Cardinality(UserIdsByName(ret.in.changeTo)) = 1

-----------------------------------------------------------------------------
(* Local sessions next to a federation: join locally, ask locally and upstream *)

JoinedInstants == {SessionTtl + s : s \in 0..MaxSeconds}
JoinedCalls == [UpstreamIds -> {HttpAnswer(200, "Carol"), HttpAnswer(204, "")}]

NextJoined ==
    \/ Login("alice@example.com", "secret1", NilClient) /\ nextTok' <= 1
    \/ \E calls \in JoinedCalls :
          JoinServer(1, "S", UnsignedString(1), "1.2.3.4", calls, FirstOrder)
    \/ \E n \in {"Alice", "Carol"}, ip \in {"", "1.2.3.4", "9.9.9.9"}, calls \in JoinedCalls :
          HasJoinedServer("S", n, ip, calls, FirstOrder)
    \/ Tick(JoinedInstants)

SpecJoined == InitFederated /\ [][NextJoined]_vars

(* ---- C22 ---- *)
\* the session cached under the server id cannot answer the query: it is
\* older than 30 seconds, or of another name, or of another address
C22_Unusable(in) ==
    /\ in.serverId \in DOMAIN sessions
    /\ \/ HasExpired(sessions[in.serverId], now)
       \/ sessions[in.serverId].Token.SelectedProfile.Name # in.username
       \/ in.ip # "" /\ in.ip # sessions[in.serverId].Ip

\* C22: HasJoinedServer treats a cached session that is stale or mismatched
\* the same as a cache miss: it delegates to the federation's HasJoined,
\* returns the upstream profile if one is found, and reports no content only
\* if the federation also yields nothing.
C22_StaleAsMiss ==
    [][(ret'.op = "HasJoinedServer" /\ C22_Unusable(ret'.in)) =>
          LET h == HasJoined(ret'.in.calls, ret'.in.order) IN
          /\ requestCounter' = h.counter
          /\ h.out # NoResult => ret'.err = NoError /\ ret'.out = h.out
          /\ ret'.err = NoContent => h.out = NoResult /\ h.err = NilErr]_vars

\* with no session cached the query went upstream and the upstream profile
\* came back
C22_Witness ==
    /\ ret.op = "HasJoinedServer"
    /\ ret.err = NoError
    /\ ret.out = "Carol"
    /\ requestCounter > 0
    /\ sessions = << >>


-----------------------------------------------------------------------------
(* Login attempts for a registered and for an unknown address *)

LoginEmails == {"alice@example.com", "nobody@example.com"}

NextLogin ==
    \/ \E e \in LoginEmails, p \in Passwords :
          Login(e, p, NilClient) /\ nextTok' <= LifecycleTokens
    \/ Tick(LimiterInstants)

SpecLogin == InitAccounts /\ [][NextLogin]_vars

(* ---- C23 ---- *)
\* the account table without the rows of an address
C23_Without(email) ==
    [i \in {j \in DOMAIN users : users[j].Email # email} |-> users[i]]

\* C23: Login does not reveal whether an email is registered: for any
\* password, a run where the email belongs to an account with a different
\* password and a run where it belongs to no account, all else equal, answer
\* the same error code, message and status and leave the same limiter and
\* token cache.
C23_NoAccountOracle ==
    \A e \in Emails \cup LoginEmails, p \in Passwords, c \in {NilClient, 2} :
        (\E i \in UserIdsByEmail(e) : ~CompareHashAndPassword(users[i].Password, p)) =>
            LoginIn(users, e, p, c) = LoginIn(C23_Without(e), e, p, c)

\* both runs have been made: the unknown address was just answered, and the
\* registered one has been tried with a wrong password before (its limiter
\* exists while no token was minted)
C23_Witness ==
    /\ ret.op = "Login"
    /\ ret.in.username = "nobody@example.com"
    /\ ret.err = NewForbiddenOperationError(MessageInvalidCredentials)
    /\ LimiterKey("", "alice@example.com") \in DOMAIN limiters
    /\ nextTok = 0

\* a wrong password for the registered address, throttled
C23_WitnessThrottled ==
    /\ ret.op = "Login"
    /\ ret.in.username = "alice@example.com"
    /\ ret.in.password = "secret2"
    /\ ret.err = TooManyRequests

-----------------------------------------------------------------------------
(* SendEmail throttling from a limiter cache with no entries *)

\* one second after the first call, then around the refill of one token (50 s)
ThrottleInstants == {1} \cup {49 + s : s \in 0..MaxSeconds} \cup {51}

NextThrottle ==
    \/ \E e \in Emails, ip \in Ips : SendEmail(e, ip)
    \/ Tick(ThrottleInstants)

SpecThrottle == InitAccounts /\ [][NextThrottle]_vars

(* ---- C24 ---- *)
\* the step is a SendEmail call that passed the limiter of key k, which
\* existed before: the limiter took a token
C24_Passed(k) ==
    /\ ret'.op = "SendEmail"
    /\ k \in {LimiterKey("ip:", ret'.in.ip), LimiterKey("email:", ret'.in.email)}
    /\ limiters'[k] # limiters[k]

\* C24: SendEmail throttling is burst 1 with refill 0.02/s per key: for each
\* key ("ip:"+clientIp and, separately, "email:"+email) at most one SendEmail
\* call passes that key's limiter in any time window shorter than 50 seconds,
\* counting from the first call ever made for the key.  (last is the instant
\* of the key's latest pass: a limiter is created by a call that passes.)
C24_OnePerWindow ==
    [][\A k \in DOMAIN limiters :
          C24_Passed(k) => now' - limiters[k].last >= 50]_vars

\* a call inside the window was refused with the rate-limit error
C24_Witness ==
    /\ ret.op = "SendEmail"
    /\ ret.err = TooManyRequests
    /\ now < 50

(* ---- C25 ---- *)
\* the text TestResetPasswordWithoutSMTP expects in the error (in English)
C25_MessageUnavailable == "password reset currently unavailable"

\* C25: when SMTP is disabled, password reset is a disabled feature: every
\* ResetPassword call, for any email, password and token, fails with the
\* dedicated 'password reset currently unavailable' error, not with an
\* invalid-token error, and leaves the account's password and verification
\* flag unchanged.
C25_ResetDisabled ==
    [][(ret'.op = "ResetPassword" /\ ~smtpEnabled) =>
          /\ ret'.err # NoError
          /\ ret'.err.msg = C25_MessageUnavailable
          /\ users' = users]_vars

\* SMTP is disabled and a reset was asked for a registered address: it
\* failed and the account is as it was registered
C25_Witness ==
    /\ ~smtpEnabled
    /\ ret.op = "ResetPassword"
    /\ ret.err # NoError
    /\ \E id \in UserIdsByEmail(ret.in.email) :
          /\ users[id].Password = HashPassword("secret1")
          /\ users[id].EmailVerified = RegisteredVerified

-----------------------------------------------------------------------------
(* Configuration strings, as sequences of characters *)

\* strings.HasPrefix(s[i:], p), positions from 1
StartsWith(s, i, p) ==
    /\ i + Len(p) - 1 <= Len(s)
    /\ \A k \in 1..Len(p) : s[i + k - 1] = p[k]

\* the least element of a non-empty set of positions
LeastOf(S) == CHOOSE j \in S : \A k \in S : j <= k

\* the concatenation of a sequence of strings
RECURSIVE Concat(_)
Concat(parts) ==
    IF parts = << >> THEN << >> ELSE Head(parts) \o Concat(Tail(parts))

\* the inputs made of at most n of the given pieces
StringsOf(pieces, n) ==
    {Concat(f) : f \in UNION {[1..m -> pieces] : m \in 0..n}}

CommentOpen == <<"<", "!", "-", "-">>
CommentClose == <<"-", "-", ">">>

\* regexp (?s)<!--.*?--> with ReplaceAllString(s, ""): from position i, the
\* leftmost match is removed up to its first "-->", and the scan goes on
\* behind it
RECURSIVE ReplaceAllFrom(_, _)
ReplaceAllFrom(s, i) ==
    IF i > Len(s) THEN << >>
    ELSE LET closes == {j \in (i + 4)..Len(s) : StartsWith(s, j, CommentClose)} IN
         IF StartsWith(s, i, CommentOpen) /\ closes # {}
         THEN ReplaceAllFrom(s, LeastOf(closes) + 3)
         ELSE <<s[i]>> \o ReplaceAllFrom(s, i + 1)

removeHtmlComments(htmlContent) == ReplaceAllFrom(htmlContent, 1)

\* NewRegTokenService: the configured template has its comments removed
\* before it is parsed
NewRegTokenService ==
    /\ ret.op = "SmtpConfig"
    /\ ret' = Ret("NewRegTokenService", ret.in, NoError,
                  removeHtmlComments(ret.in.RegisterTemplate))
    /\ UNCHANGED <<inflight, now, accountVars, tokens, texMaps, nextTok, sessions,
                   limiters, regVars, keyVars, upVars>>

\* cap on the pieces a configured template is made of
MaxPieces == 5

\* pieces of a template: the comment delimiters, a cut delimiter, a dash,
\* text, a placeholder and a line break
TemplatePieces ==
    {CommentOpen, CommentClose, <<"<", "!", "-">>, <<"-">>, <<"a">>,
     <<"{", "{", "x", "}", "}">>, <<"\n">>}

InitTemplate ==
    /\ now = 0
    /\ users = << >>
    /\ textures = << >>
    /\ texMaps = << >>
    /\ tokens = << >>
    /\ nextTok = 0
    /\ sessions = << >>
    /\ limiters = << >>
    /\ regTokens = << >>
    /\ nextReg = 0
    /\ smtpEnabled = TRUE
    /\ ups = << >>
    /\ requestCounter = 0
    /\ pool = NewUpstreamServicePool
    /\ keyPairCh = << >>
    /\ profileKeyCache = << >>
    /\ nextKey = 0
    /\ cachedPubKey = NilKeys
    /\ inflight = << >>
    /\ \E t \in StringsOf(TemplatePieces, MaxPieces) :
          ret = Ret("SmtpConfig", [RegisterTemplate |-> t], NoError, 0)

NextTemplate == NewRegTokenService

SpecTemplate == InitTemplate /\ [][NextTemplate]_vars

(* ---- C26 ---- *)
\* s holds a complete comment span
C26_HasComment(s) ==
    \E i \in 1..Len(s), j \in 1..Len(s) :
        StartsWith(s, i, CommentOpen) /\ j >= i + 4 /\ StartsWith(s, j, CommentClose)

\* out from position k is s from position i with some comment spans cut out
RECURSIVE C26_Residue(_, _, _, _)
C26_Residue(s, i, out, k) ==
    \/ i > Len(s) /\ k > Len(out)
    \/ i <= Len(s) /\ k <= Len(out) /\ s[i] = out[k] /\ C26_Residue(s, i + 1, out, k + 1)
    \/ /\ StartsWith(s, i, CommentOpen)
       /\ \E j \in (i + 4)..Len(s) :
             StartsWith(s, j, CommentClose) /\ C26_Residue(s, j + 3, out, k)

\* C26: for every input string, the output of removeHtmlComments contains no
\* complete <!-- ... --> comment span (single-line or multi-line), all text
\* outside the removed comments, template placeholders included, is
\* preserved in order, and an input without comments is returned unchanged.
C26_CommentsStripped ==
    ret.op = "NewRegTokenService" =>
        /\ ~C26_HasComment(ret.out)
        /\ C26_Residue(ret.in.RegisterTemplate, 1, ret.out, 1)
        /\ ~C26_HasComment(ret.in.RegisterTemplate) => ret.out = ret.in.RegisterTemplate

\* a template with a comment over a line break before a placeholder: the
\* comment is gone and the placeholder is kept
C26_Witness ==
    /\ ret.op = "NewRegTokenService"
    /\ ret.in.RegisterTemplate =
          CommentOpen \o <<"\n">> \o CommentClose \o <<"{", "{", "x", "}", "}">>
    /\ ret.out = <<"{", "{", "x", "}", "}">>

-----------------------------------------------------------------------------
(* util.ValidateURLTemplate on the URL templates of an upstream's service   *)
(* configuration                                                            *)

\* strings.Count(s, c) for a one-character c
Count(s, c) == Cardinality({i \in 1..Len(s) : s[i] = c})

SchemeHttp == <<"h", "t", "t", "p", ":", "/", "/">>
SchemeHttps == <<"h", "t", "t", "p", "s", ":", "/", "/">>

ErrUrlScheme == "URL must start with http:// or https://"
ErrUnbalanced == "unbalanced placeholders in URL template"

\* a validation that takes only https:// for a scheme
ValidateURLTemplate_HttpsOnly(template) ==
    IF ~StartsWith(template, 1, SchemeHttps)
    THEN ErrUrlScheme
    ELSE IF Count(template, "{") # Count(template, "}")
    THEN ErrUnbalanced
    ELSE NilErr

ValidateURLTemplate(template) ==
    IF ~StartsWith(template, 1, SchemeHttp) /\ ~StartsWith(template, 1, SchemeHttps)
    THEN ErrUrlScheme
    ELSE IF Count(template, "{") # Count(template, "}")
    THEN ErrUnbalanced
    ELSE NilErr

\* the validation of ServiceConfig.ProfileURL when the configuration is loaded
ValidateProfileURL ==
    /\ ret.op = "ServiceConfig"
    /\ ret' = Ret("ValidateURLTemplate", ret.in, NoError,
                  ValidateURLTemplate(ret.in.ProfileURL))
    /\ UNCHANGED <<inflight, now, accountVars, tokens, texMaps, nextTok, sessions,
                   limiters, regVars, keyVars, upVars>>

\* pieces of a URL template: schemes, a scheme cut short, text and braces
UrlPieces ==
    {SchemeHttp, SchemeHttps, <<"f", "t", "p", ":", "/", "/">>,
     <<"h", "t", "t", "p", ":", "/">>, <<"a">>, <<"{">>, <<"}">>}

InitUrl ==
    /\ now = 0
    /\ users = << >>
    /\ textures = << >>
    /\ texMaps = << >>
    /\ tokens = << >>
    /\ nextTok = 0
    /\ sessions = << >>
    /\ limiters = << >>
    /\ regTokens = << >>
    /\ nextReg = 0
    /\ smtpEnabled = FALSE
    /\ ups = << >>
    /\ requestCounter = 0
    /\ pool = NewUpstreamServicePool
    /\ keyPairCh = << >>
    /\ profileKeyCache = << >>
    /\ nextKey = 0
    /\ cachedPubKey = NilKeys
    /\ inflight = << >>
    /\ \E t \in StringsOf(UrlPieces, MaxPieces) :
          ret = Ret("ServiceConfig", [ProfileURL |-> t], NoError, 0)

NextUrl == ValidateProfileURL

SpecUrl == InitUrl /\ [][NextUrl]_vars

(* ---- C27 ---- *)
\* the opening braces of s minus its closing braces, from position i
RECURSIVE C27_Excess(_, _)
C27_Excess(s, i) ==
    IF i > Len(s) THEN 0
    ELSE (IF s[i] = "{" THEN 1 ELSE IF s[i] = "}" THEN -1 ELSE 0) + C27_Excess(s, i + 1)

C27_HasScheme(s) ==
    \/ Len(s) >= 7 /\ SubSeq(s, 1, 7) = SchemeHttp
    \/ Len(s) >= 8 /\ SubSeq(s, 1, 8) = SchemeHttps

\* C27: ValidateURLTemplate accepts a template if and only if it starts with
\* http:// or https:// and contains the same number of { and } characters;
\* every other template is rejected with an error.
C27_AcceptsIff ==
    ret.op = "ValidateURLTemplate" =>
        (ret.out = NilErr <=>
            C27_HasScheme(ret.in.ProfileURL) /\ C27_Excess(ret.in.ProfileURL, 1) = 0)

\* an http:// template whose braces are equal in number but closed before
\* they are opened was accepted
C27_Witness ==
    /\ ret.op = "ValidateURLTemplate"
    /\ ret.in.ProfileURL = SchemeHttp \o <<"}", "a", "{">>
    /\ ret.out = NilErr

\* a template with one brace too many was refused
C27_WitnessUnbalanced ==
    /\ ret.op = "ValidateURLTemplate"
    /\ StartsWith(ret.in.ProfileURL, 1, SchemeHttps)
    /\ ret.out = ErrUnbalanced

-----------------------------------------------------------------------------
(* Texture bookkeeping on a database that refuses statements: two accounts *)
(* log in and upload and delete skins while single statements fail         *)

\* the first token's holder changes skins; the second shares the first image
FaultImages == <<{"imgA", "imgB"}, {"imgA"}>>

\* <<refused statement, whether the database then aborts the transaction>>
FaultCases ==
    ((Statements \cup {NoFault}) \X {FALSE})
        \cup ({"increment", "delete"} \X {TRUE})

NextFault ==
    \/ /\ nextTok = 0
       /\ Login("alice@example.com", "secret1", NilClient)
    \/ /\ nextTok = 1
       /\ Login("bob@example.com", "secret2", NilClient)
    \/ \E a \in DOMAIN tokens, f \in FaultCases : \E img \in FaultImages[a] :
          StoreTextureTx("UploadTexture", a, OwnProfile(a), img, "skin", f[1], f[2])
    \/ \E a \in DOMAIN tokens, f \in FaultCases :
          DeleteTextureTx(a, OwnProfile(a), "skin", f[1], f[2])

SpecFault == InitAccounts /\ [][NextFault]_vars

(* ---- C28 ---- *)
\* C28: a texture save or delete in which a statement of the bookkeeping
\* failed (row create, count increment or decrement, row delete, account
\* save) returns an error and leaves the texture table and the account rows
\* exactly as they were
C28_AllOrNothing ==
    [][(/\ ret'.op \in {"UploadTexture", "DeleteTexture"}
        /\ ret'.out.failed # NoFault)
       => /\ ret'.err # NoError
          /\ textures' = textures
          /\ users' = users]_vars

\* an upload or delete whose count or row-delete statement failed has
\* nevertheless returned success
C28_Witness ==
    /\ ret.op \in {"UploadTexture", "DeleteTexture"}
    /\ ret.out.failed \in {"increment", "decrement", "delete"}
    /\ ret.err = NoError

\* a failed create or account save is rolled back with an error
C28_WitnessRollback ==
    /\ ret.op \in {"UploadTexture", "DeleteTexture"}
    /\ ret.out.failed \in {"create", "save"}
    /\ ret.err = ErrStatement

(* ---- C29 ---- *)
\* C29: in every state reached by uploads and deletes through Valid tokens,
\* each hash in an account's persisted slot-to-hash map has a texture row
C29_NoDanglingHash ==
    \A id \in DOMAIN users : \A slot \in Slots :
        LET hash == DeserializeTextures(users[id].SerializedTextures)[slot]
        IN  hash # NoHash => hash \in DOMAIN textures

\* an account's persisted map names a hash whose row a delete has removed
C29_Witness ==
    /\ ret.op = "DeleteTexture"
    /\ ret.err = NoError
    /\ \E id \in DOMAIN users : \E slot \in Slots :
          LET hash == DeserializeTextures(users[id].SerializedTextures)[slot]
          IN  hash # NoHash /\ hash \notin DOMAIN textures

-----------------------------------------------------------------------------
(* Refresh served concurrently: each request runs on its own goroutine and *)
(* the handler takes no lock, so another request can run between the       *)
(* token-store calls and the database read of one Refresh                  *)

\* Refresh up to db.First: the tests of the request, VerifyToken and GetToken
RefreshVerify(accessToken, clientToken) ==
    LET in == [accessToken |-> accessToken, clientToken |-> clientToken,
               selectedProfile |-> FALSE]
        ver == VerifyToken(tokens, accessToken, clientToken)
        found == accessToken \in DOMAIN ver.toks
    IN  /\ DOMAIN inflight # 1..MaxInflight
        /\ tokens' = ver.toks
        /\ texMaps' = Collect(texMaps, ver.toks, sessions)
        /\ IF AccessTokenLen(accessToken) > 36 \/ ver.level = Invalid \/ ~found
           THEN /\ ret' = Ret("Refresh", in, NewForbiddenOperationError(MessageInvalidToken), 0)
                /\ UNCHANGED inflight
           ELSE /\ inflight' = StartCall("Refresh", "first", in,
                                         [Id |-> ver.toks[accessToken].SelectedProfile.Id])
                /\ ret' = Ret("RefreshVerify", in, NoError, NewSlot)
        /\ UNCHANGED <<now, accountVars, nextTok, sessions, limiters, regVars, keyVars, upVars>>

\* Refresh from db.First to its return: AcquireToken, then RemoveAccessToken
RefreshRotate(slot) ==
    LET in == inflight[slot].in
        id == inflight[slot].local.Id
        acq == AcquireToken(tokens, texMaps, id, in.clientToken)
        rotated == RemoveAccessToken(acq.toks, in.accessToken)
    IN  /\ At(slot, "Refresh", "first")
        /\ inflight' = EndCall(slot)
        /\ IF id \notin DOMAIN users
           THEN /\ ret' = Ret("Refresh", in, NewIllegalArgumentError(MessageProfileNotFound), 0)
                /\ UNCHANGED <<tokens, texMaps, nextTok>>
           ELSE /\ nextTok < MaxTokens
                /\ tokens' = rotated
                /\ texMaps' = Collect(acq.maps, rotated, sessions)
                /\ nextTok' = nextTok + 1
                /\ ret' = Ret("Refresh", in, NoError,
                              [accessToken |-> acq.token.AccessToken,
                               clientToken |-> acq.token.ClientToken,
                               selectedProfile |-> UnsignedString(acq.token.SelectedProfile.Id)])
        /\ UNCHANGED <<now, accountVars, sessions, limiters, regVars, keyVars, upVars>>

\* one login, then refreshes of the tokens that descend from it
NextRefresh ==
    \/ /\ nextTok = 0
       /\ \E c \in TokenClients : Login("alice@example.com", "secret1", c)
    \/ \E a \in 1..MaxTokens, c \in TokenClients : RefreshVerify(a, c)
    \/ \E slot \in 1..MaxInflight : RefreshRotate(slot)

SpecRefresh == InitAccounts /\ [][NextRefresh]_vars

(* ---- C30 ---- *)
\* C30: of the Refresh calls that present one access token at most one
\* succeeds, whatever their interleaving: a Refresh that succeeds finds the
\* token it presented still live when it rotates it, and (the specification
\* logging in once) there is never more than one live token
C30_OneSuccessor ==
    /\ [][(ret'.op = "Refresh" /\ ret'.err = NoError)
            => ret'.in.accessToken \in DOMAIN tokens]_vars
    /\ [](Cardinality(DOMAIN tokens) <= 1)

\* two Refresh calls of the one token issued at login have both succeeded:
\* two live tokens descend from it
C30_Witness ==
    /\ ret.op = "Refresh"
    /\ ret.err = NoError
    /\ ret.in.accessToken = 1
    /\ DOMAIN tokens = {2, 3}

-----------------------------------------------------------------------------
(* The token store under concurrent requests: the cache locks each of its  *)
(* own operations (Keys, Get, Remove, Add), the store adds no lock of its  *)
(* own, so RemoveAll is a snapshot of the keys followed by one Get/Remove  *)
(* per key, and other requests run in between                              *)

\* Signout up to RemoveAll's tokenCache.Keys(): the limiter, the account,
\* the password, and the snapshot of the keys
SignoutKeys(username, password) ==
    LET in == [username |-> username, password |-> password]
        allow == allowUser(username)
        ids == UserIdsByEmail(username)
        id == CHOOSE i \in ids : TRUE
        matched == ids # {} /\ CompareHashAndPassword(users[id].Password, password)
    IN  /\ DOMAIN inflight # 1..MaxInflight
        /\ limiters' = allow.lims
        /\ IF ~allow.ok
           THEN /\ ret' = Ret("Signout", in, TooManyRequests, 0)
                /\ UNCHANGED inflight
           ELSE IF ~matched
           THEN /\ ret' = Ret("Signout", in,
                              NewForbiddenOperationError(MessageInvalidCredentials), 0)
                /\ UNCHANGED inflight
           ELSE /\ inflight' = StartCall("Signout", "scan", in,
                                  [Id |-> id, keys |-> DOMAIN tokens, done |-> {}])
                /\ ret' = Ret("SignoutKeys", in, NoError, NewSlot)
        /\ UNCHANGED <<now, accountVars, tokens, texMaps, nextTok, sessions, regVars, keyVars, upVars>>

\* one turn of RemoveAll's loop: Get(k), and Remove(k) if the token is the
\* account's (the snapshot's order is the cache's recency order, not kept here)
SignoutScan(slot) ==
    /\ At(slot, "Signout", "scan")
    /\ \E k \in inflight[slot].local.keys \ inflight[slot].local.done :
          LET mine == /\ k \in DOMAIN tokens
                      /\ tokens[k].SelectedProfile.Id = inflight[slot].local.Id
              toks == IF mine THEN RemoveAccessToken(tokens, k) ELSE tokens
          IN  /\ tokens' = toks
              /\ texMaps' = Collect(texMaps, toks, sessions)
              /\ inflight' = [inflight EXCEPT ![slot].local.done = @ \cup {k}]
    /\ UNCHANGED <<ret, now, accountVars, nextTok, sessions, limiters, regVars, keyVars, upVars>>

\* the loop is over: RemoveAll and Signout return
SignoutReturn(slot) ==
    /\ At(slot, "Signout", "scan")
    /\ inflight[slot].local.done = inflight[slot].local.keys
    /\ inflight' = EndCall(slot)
    /\ ret' = Ret("Signout", inflight[slot].in, NoError, 0)
    /\ UNCHANGED <<now, accountVars, tokens, texMaps, nextTok, sessions, limiters,
                   regVars, keyVars, upVars>>

\* cap on the tokens minted while a scan is watched
StoreTokens == 3

NextStore ==
    \/ /\ nextTok < StoreTokens
       /\ \/ Login("alice@example.com", "secret1", NilClient)
          \/ Login("bob@example.com", "secret2", NilClient)
    \/ \E a \in 1..StoreTokens : Validate(a, NilClient)
    \/ \E a \in 1..StoreTokens : Invalidate(a)
    \/ SignoutKeys("alice@example.com", "secret1")
    \/ \E slot \in 1..MaxInflight : SignoutScan(slot)
    \/ \E slot \in 1..MaxInflight : SignoutReturn(slot)

SpecStore == InitAccounts /\ [][NextStore]_vars

(* ---- C31 ---- *)
\* C31: RemoveAll acts as if its scan happened at one instant of the call.
\* A consequence: if, during a Signout, a Validate answered Valid for a token
\* that the scan then removed, the instant lies after that Validate; when
\* nothing but the scan ran from that answer to Signout's return, every token
\* of the account cached at the return was acquired before the instant, so
\* there must be none
C31_ScanAtOneInstant ==
    [][\A s \in DOMAIN inflight :
          (/\ inflight[s].op = "Signout"
           /\ s \notin DOMAIN inflight'
           /\ ret.op = "Validate"
           /\ ret.err = NoError
           /\ ret.in.accessToken \in inflight[s].local.keys
           /\ ret.in.accessToken \notin DOMAIN tokens)
          => \A a \in DOMAIN tokens' :
                tokens'[a].SelectedProfile.Id # inflight[s].local.Id]_vars

\* Signout has returned and a token of the account, acquired while the scan
\* ran, is still cached and Valid
C31_Witness ==
    /\ ret.op = "Signout"
    /\ ret.err = NoError
    /\ inflight = << >>
    /\ \E a \in DOMAIN tokens :
          /\ users[tokens[a].SelectedProfile.Id].Email = ret.in.username
          /\ GetAvailableLevel(tokens[a], now) = Valid

-----------------------------------------------------------------------------
(* A federation operation as its goroutines run it: the caller acquires a  *)
(* permit, starts one task per eligible upstream and a closer, and ranges  *)
(* over the result channel; tasks and closer can outlive the caller        *)

\* UpstreamConfig.PoolSize
PoolSize == 1

RaceToSuccess == "race"
WaitAll == "all"

\* make(chan *UpstreamResponse, len(availableUpstreams)), and a channel
\* without buffer
ChanCapacity_Unbuffered(n) == 0

ChanCapacity(n) == n

\* a closer that does not wait for the tasks
WaitDone_NoWait(tasks) == TRUE

\* wg.Wait() has returned: every task has run its deferred wg.Done()
WaitDone(tasks) == \A id \in DOMAIN tasks : tasks[id] = "done"

\* the operations that have not returned: each holds the permit it acquired
Operating == {s \in DOMAIN inflight : inflight[s].op = "Federation" /\ inflight[s].pc = "collect"}

\* the result of aggregateResponses on what the caller has received
AggregateOf(strategy, got) ==
    LET ok == {i \in DOMAIN got : got[i].IsSuccess} IN
    [IsSuccess |-> ok # {}, SuccessCount |-> Cardinality(ok),
     Received |-> {got[i].UpstreamID : i \in DOMAIN got}]

\* the caller returns: deferred cancel() and pool.Release(); the goroutines
\* it started stay until the closer has closed the channel
FederationReturn(slot, in, got) ==
    LET call == inflight[slot]
        result == AggregateOf(call.local.strategy, got)
        left == [call EXCEPT !.pc = "returned", !.local.cancelled = TRUE,
                             !.local.got = got]
    IN  /\ pool' = Release(pool)
        /\ inflight' = IF call.local.closed THEN EndCall(slot)
                       ELSE [inflight EXCEPT ![slot] = left]
        /\ ret' = Ret("Federation", in,
                      IF result.IsSuccess THEN NoError
                      ELSE PlainError(ErrAllUpstreamsFailed), result)

\* a public operation from incrementRequestCounter to the start of its
\* tasks: pool.Acquire (which waits while no permit is free) and
\* getAvailableUpstreams; with no eligible upstream it returns at once
FederationAcquire(strategy, calls) ==
    LET in == [strategy |-> strategy, calls |-> calls]
        counter == requestCounter + 1
        avail == getAvailableUpstreams(ups, counter, now)
    IN  /\ ~degradedMode
        /\ requestCounter < MaxRequests
        /\ DOMAIN inflight # 1..MaxInflight
        /\ Cardinality(Operating) < PoolSize
        /\ requestCounter' = counter
        /\ IF avail = {}
           THEN /\ pool' = Release(Acquire(pool))
                /\ ret' = Ret("Federation", in, PlainError(ErrAllUpstreamsFailed),
                              AggregateOf(strategy, << >>))
                /\ UNCHANGED inflight
           ELSE /\ pool' = Acquire(pool)
                /\ inflight' = StartCall("Federation", "collect", in,
                                  [strategy |-> strategy,
                                   cap |-> ChanCapacity(Cardinality(avail)),
                                   chan |-> << >>, closed |-> FALSE,
                                   tasks |-> [id \in avail |-> "run"],
                                   got |-> << >>, cancelled |-> FALSE])
                /\ ret' = Ret("FederationAcquire", in, NoError, NewSlot)
        /\ UNCHANGED <<now, accountVars, tokens, texMaps, nextTok, sessions, limiters,
                       regVars, keyVars, ups>>

\* pool.Acquire of a request whose context is cancelled while it waits for a
\* permit: the operation fails without a permit and releases none
FederationAcquireCancelled(strategy, calls) ==
    /\ ~degradedMode
    /\ requestCounter < MaxRequests
    /\ Cardinality(Operating) >= PoolSize
    /\ requestCounter' = requestCounter + 1
    /\ ret' = Ret("Federation", [strategy |-> strategy, calls |-> calls],
                  PlainError("failed to acquire pool permit"), 0)
    /\ UNCHANGED <<inflight, now, accountVars, tokens, texMaps, nextTok, sessions,
                   limiters, regVars, keyVars, ups, pool>>

\* the deadline of the operation's context passes before it has returned
FederationDeadline(slot) ==
    /\ At(slot, "Federation", "collect")
    /\ ~inflight[slot].local.cancelled
    /\ inflight' = [inflight EXCEPT ![slot].local.cancelled = TRUE]
    /\ UNCHANGED <<ret, now, accountVars, tokens, texMaps, nextTok, sessions, limiters,
                   regVars, keyVars, upVars>>

\* one task: its request returns, it records the upstream's state, then
\* select { send on the channel | ctx.Done() }, then wg.Done(). send is TRUE
\* for the first case; a send on a closed channel panics
FederationTask(slot, id, send) ==
    LET call == inflight[slot]
        l == call.local
        t == UpstreamTask(id, ups[id],
                          doHTTPRequestWithFullURL(call.in.calls[id], FALSE), now)
    IN  /\ slot \in DOMAIN inflight
        /\ call.op = "Federation"
        /\ id \in DOMAIN l.tasks
        /\ l.tasks[id] = "run"
        /\ IF send THEN l.closed \/ Len(l.chan) < l.cap ELSE l.cancelled
        /\ ups' = [ups EXCEPT ![id] = t.state]
        /\ inflight' = [inflight EXCEPT
                          ![slot].local.tasks[id] = "done",
                          ![slot].local.chan = IF send /\ ~l.closed
                                               THEN Append(@, t.resp) ELSE @]
        /\ ret' = Ret("FederationTask", [slot |-> slot, id |-> id, send |-> send],
                      IF send /\ l.closed THEN PlainError("send on closed channel")
                      ELSE NoError, 0)
        /\ UNCHANGED <<now, accountVars, tokens, texMaps, nextTok, sessions, limiters,
                       regVars, keyVars, requestCounter, pool>>

\* the closer: wg.Wait(), close(responsesChan)
FederationClose(slot) ==
    LET call == inflight[slot] IN
    /\ slot \in DOMAIN inflight
    /\ call.op = "Federation"
    /\ ~call.local.closed
    /\ WaitDone(call.local.tasks)
    /\ inflight' = IF call.pc = "returned" THEN EndCall(slot)
                   ELSE [inflight EXCEPT ![slot].local.closed = TRUE]
    /\ ret' = Ret("FederationClose", [slot |-> slot],
                  IF \E id \in DOMAIN call.local.tasks : call.local.tasks[id] = "run"
                  THEN PlainError("closed under a running task") ELSE NoError, 0)
    /\ UNCHANGED <<now, accountVars, tokens, texMaps, nextTok, sessions, limiters,
                   regVars, keyVars, upVars>>

\* aggregateResponses: one turn of `for resp := range responsesChan`, and the
\* return of the operation when the turn ends the loop
FederationReceive(slot) ==
    LET call == inflight[slot]
        l == call.local
        got == Append(l.got, Head(l.chan))
    IN  /\ At(slot, "Federation", "collect")
        /\ IF l.chan # << >>
           THEN IF l.strategy = RaceToSuccess /\ Head(l.chan).IsSuccess
                THEN FederationReturn(slot, call.in, got)
                ELSE /\ inflight' = [inflight EXCEPT ![slot].local.got = got,
                                                     ![slot].local.chan = Tail(@)]
                     /\ UNCHANGED <<ret, pool>>
           ELSE /\ l.closed
                /\ FederationReturn(slot, call.in, l.got)
        /\ UNCHANGED <<now, accountVars, tokens, texMaps, nextTok, sessions, limiters,
                       regVars, keyVars, ups, requestCounter>>

\* what the two upstreams do with the requests of one operation
FederationCalls ==
    {[id \in UpstreamIds |-> HttpAnswer(200, "Carol")],
     [id \in UpstreamIds |-> IF id = "u1" THEN HttpCreateError
                             ELSE HttpAnswer(200, "Carol")],
     [id \in UpstreamIds |-> HttpAnswer(500, "")]}

NextFederation ==
    \/ \E strategy \in {RaceToSuccess, WaitAll}, calls \in FederationCalls :
          FederationAcquire(strategy, calls)
    \/ FederationAcquireCancelled(WaitAll, [id \in UpstreamIds |-> HttpAnswer(200, "Carol")])
    \/ \E slot \in 1..MaxInflight : FederationDeadline(slot)
    \/ \E slot \in 1..MaxInflight, id \in UpstreamIds, send \in BOOLEAN :
          FederationTask(slot, id, send)
    \/ \E slot \in 1..MaxInflight : FederationClose(slot)
    \/ \E slot \in 1..MaxInflight : FederationReceive(slot)

\* every goroutine that can run does run; a request's answer, and with it the
\* task's select, comes within the request's timeout
FederationFairness ==
    \A slot \in 1..MaxInflight :
        /\ WF_vars(FederationClose(slot))
        /\ WF_vars(FederationReceive(slot))
        /\ \A id \in UpstreamIds : WF_vars(\E send \in BOOLEAN : FederationTask(slot, id, send))

SpecFederation == InitFederated /\ [][NextFederation]_vars /\ FederationFairness

(* ---- C32 ---- *)
\* C32: with a pool of at least one permit, the operations holding a permit
\* are never more than the pool size, the pool's active count is their
\* number (0 when none is in flight), and an operation that returns, with a
\* result or with an error, gives back exactly the one permit it acquired
C32_PermitsBounded ==
    /\ [](/\ PoolSize >= 1
          /\ Cardinality(Operating) <= PoolSize
          /\ pool.ActiveCount = Cardinality(Operating)
          /\ (Operating = {} => pool.ActiveCount = 0))
    /\ [][\A s \in Operating :
            (s \notin DOMAIN inflight' \/ inflight'[s].pc # "collect")
            => /\ ret'.op = "Federation"
               /\ pool'.ActiveCount = pool.ActiveCount - 1]_vars

\* an operation that failed on every upstream has returned its permit: none
\* is in flight, the count is 0, and permits were granted before
C32_Witness ==
    /\ ret.op = "Federation"
    /\ ret.err = PlainError(ErrAllUpstreamsFailed)
    /\ ret.out.Received # {}
    /\ Operating = {}
    /\ pool.ActiveCount = 0
    /\ pool.TotalRequests >= 2

\* the pool is exhausted: a second operation got no permit while one holds it
C32_WitnessExhausted ==
    /\ Cardinality(Operating) = PoolSize
    /\ ret.op = "Federation"
    /\ ret.err = PlainError("failed to acquire pool permit")

(* ---- C33 ---- *)
\* the fan-outs whose goroutines have not all ended
C33_FanOuts == {s \in DOMAIN inflight : inflight[s].op = "Federation"}

\* C33: every fan-out ends. A task that has yet to report finds room in the
\* channel; the channel is closed only when every task has finished, so no
\* task sends on the closed channel; and, the per-upstream requests
\* returning, the caller returns and all its goroutines end, under
\* race-to-success and under wait-all
C33_FanOutTerminates ==
    /\ [](\A s \in C33_FanOuts :
            LET l == inflight[s].local IN
            /\ \A id \in DOMAIN l.tasks : l.tasks[id] = "run" => Len(l.chan) < l.cap
            /\ l.closed => \A id \in DOMAIN l.tasks : l.tasks[id] = "done")
    /\ [](ret.op \in {"FederationTask", "FederationClose"} => ret.err = NoError)
    /\ \A slot \in 1..MaxInflight :
          /\ At(slot, "Federation", "collect") ~> ~At(slot, "Federation", "collect")
          /\ (slot \in DOMAIN inflight) ~> (slot \notin DOMAIN inflight)

\* a wait-all operation has returned after both tasks reported and the
\* channel was closed
C33_Witness ==
    /\ ret.op = "Federation"
    /\ ret.in.strategy = WaitAll
    /\ ret.err # PlainError("failed to acquire pool permit")
    /\ ret.out.Received = UpstreamIds
    /\ inflight = << >>

\* a race-to-success caller has returned on the first answer while the other
\* task is still running
C33_WitnessRace ==
    /\ ret.op = "Federation"
    /\ ret.in.strategy = RaceToSuccess
    /\ ret.err = NoError
    /\ \E s \in C33_FanOuts :
          /\ inflight[s].pc = "returned"
          /\ \E id \in DOMAIN inflight[s].local.tasks : inflight[s].local.tasks[id] = "run"

-----------------------------------------------------------------------------
(* Profile keys: a background producer queues RSA keypairs, ProfileKey     *)
(* caches one per account id. A keypair is modelled by its serial number.  *)

\* make(chan ProfileKeyPair, 100)
KeyPairCapacity == 100
\* cap on the keypairs the producer generates
MaxKeys == 102

\* a generator that yields the same key material every time
NewKeyPair_Fixed(n) == 1

\* rsa.GenerateKey(rand.Reader, 2048): the n-th keypair, new key material
NewKeyPair(n) == n

\* one turn of genKeyPair's loop; the send waits while the queue is full
genKeyPair ==
    /\ nextKey < MaxKeys
    /\ Len(keyPairCh) < KeyPairCapacity
    /\ keyPairCh' = Append(keyPairCh, NewKeyPair(nextKey + 1))
    /\ nextKey' = nextKey + 1
    /\ UNCHANGED <<profileKeyCache, cachedPubKey, inflight, ret, now, accountVars, tokens, texMaps,
                   nextTok, sessions, limiters, regVars, upVars>>

(* Official bearer tokens: sequences of atoms, an atom being a dot or a run *)
(* of characters without a dot                                              *)
Dot == "."
\* base64url of {"pfd":[{"id":"00000000000000000000000000000003","name":"Carol"}]}
PayloadProfile == "eyJwZmQiOlt7ImlkIjoiMDAwMDAwMDAwMDAwMDAwMDAwMDAwMDAwMDAwMDAwMDMiLCJuYW1lIjoiQ2Fyb2wifV19"
\* base64url of {"pfd":[]}
PayloadEmptyPfd == "eyJwZmQiOltdfQ"
\* base64url of {}
PayloadNoPfd == "e30"
\* a character outside the base64url alphabet
NotBase64 == "!"
\* a locally issued access token presented as text: a UUID, no dot in it
UuidText == <<"uuid">>

\* strings.IndexRune(s, '.'), positions from 0, -1 when there is none
IndexRune(s) ==
    LET at == {i \in 1..Len(s) : s[i] = Dot} IN
    IF at = {} THEN -1 ELSE LeastOf(at) - 1

\* base64.RawURLEncoding.DecodeString and json.Unmarshal into
\* officialTokenPayload: [err, Pfd]. A run of several of the payload atoms is
\* not the encoding of a JSON document, nor is the empty string
DecodePayload(segment) ==
    IF \E i \in 1..Len(segment) : segment[i] = NotBase64
    THEN [err |-> "illegal base64 data", Pfd |-> << >>]
    ELSE IF segment = <<PayloadProfile>>
    THEN [err |-> NilErr, Pfd |-> <<[Id |-> UnsignedString(3), Name |-> "Carol"]>>]
    ELSE IF segment \in {<<PayloadEmptyPfd>>, <<PayloadNoPfd>>}
    THEN [err |-> NilErr, Pfd |-> << >>]
    ELSE [err |-> "invalid JSON", Pfd |-> << >>]

\* util.ParseOfficialToken: [kind, err, id, name]; kind "panic" when the
\* slice expression token[firstDot+1 : secondDot] is out of range
ParseOfficialToken(token) ==
    LET firstDot == IndexRune(token)
        rest == SubSeq(token, firstDot + 2, Len(token))
        secondDot == 1 + firstDot + IndexRune(rest)
        payload == DecodePayload(SubSeq(token, firstDot + 2, secondDot))
    IN  IF firstDot = -1
        THEN [kind |-> "error", err |-> "invalid token", id |-> "", name |-> ""]
        ELSE IF secondDot = -1
        THEN [kind |-> "error", err |-> "invalid token", id |-> "", name |-> ""]
        ELSE IF firstDot + 1 > secondDot
        THEN [kind |-> "panic", err |-> "slice bounds out of range", id |-> "", name |-> ""]
        ELSE IF payload.err # NilErr
        THEN [kind |-> "error", err |-> payload.err, id |-> "", name |-> ""]
        ELSE IF Len(payload.Pfd) = 0
        THEN [kind |-> "error", err |-> "invalid token", id |-> "", name |-> ""]
        ELSE [kind |-> "ok", err |-> NilErr,
              id |-> payload.Pfd[1].Id, name |-> payload.Pfd[1].Name]

\* util.ToUUID on the text of a UUID
ToUUID(text) == text.uuid

\* ProfileKey once the profile id is known, up to getProfileKey's receive:
\* a cached keypair is returned, otherwise the request waits on the queue
ProfileKeyOf(in, profileId) ==
    IF profileId \in DOMAIN profileKeyCache
    THEN /\ ret' = Ret("ProfileKey", in, NoError,
                       [profileId |-> profileId, keyPair |-> profileKeyCache[profileId]])
         /\ UNCHANGED inflight
    ELSE /\ DOMAIN inflight # 1..MaxInflight
         /\ inflight' = StartCall("ProfileKey", "receive", in, [Id |-> profileId])
         /\ ret' = Ret("getProfileKey", in, NoError, NewSlot)

\* the failure of ProfileKey when the bearer token gives no profile id; a
\* panic is answered 500 by the router's recovery
ProfileKeyFails(in, parsed) ==
    /\ ret' = Ret("ProfileKey", in,
                  IF parsed.kind = "panic"
                  THEN [status |-> 500, code |-> "panic", msg |-> parsed.err]
                  ELSE PlainError(parsed.err), 0)
    /\ UNCHANGED inflight

\* ProfileKey with the access token of a cached token, or of none
ProfileKey(accessToken) ==
    LET in == [accessToken |-> accessToken]
        valid == /\ accessToken \in DOMAIN tokens
                 /\ GetAvailableLevel(tokens[accessToken], now) = Valid
        parsed == ParseOfficialToken(UuidText)
    IN  /\ IF valid THEN ProfileKeyOf(in, tokens[accessToken].SelectedProfile.Id)
           ELSE IF parsed.kind = "ok" THEN ProfileKeyOf(in, ToUUID(parsed.id))
           ELSE ProfileKeyFails(in, parsed)
        /\ UNCHANGED <<keyVars, now, accountVars, tokens, texMaps, nextTok, sessions,
                       limiters, regVars, upVars>>

\* ProfileKey with a bearer token that is no cached access token
ProfileKeyOfficial(token) ==
    LET in == [accessToken |-> token]
        parsed == ParseOfficialToken(token)
    IN  /\ IF parsed.kind = "ok" THEN ProfileKeyOf(in, ToUUID(parsed.id))
           ELSE ProfileKeyFails(in, parsed)
        /\ UNCHANGED <<keyVars, now, accountVars, tokens, texMaps, nextTok, sessions,
                       limiters, regVars, upVars>>

\* getProfileKey from the receive on the queue to ProfileKey's return
ProfileKeyReceive(slot) ==
    LET id == inflight[slot].local.Id
        keyPair == Head(keyPairCh)
    IN  /\ At(slot, "ProfileKey", "receive")
        /\ keyPairCh # << >>
        /\ keyPairCh' = Tail(keyPairCh)
        /\ profileKeyCache' = [i \in DOMAIN profileKeyCache \cup {id} |->
                                  IF i = id THEN keyPair ELSE profileKeyCache[i]]
        /\ inflight' = EndCall(slot)
        /\ ret' = Ret("ProfileKey", inflight[slot].in, NoError,
                      [profileId |-> id, keyPair |-> keyPair])
        /\ UNCHANGED <<nextKey, cachedPubKey, now, accountVars, tokens, texMaps, nextTok, sessions,
                       limiters, regVars, upVars>>

-----------------------------------------------------------------------------
(* ProfileKey on bearer tokens that are no cached access tokens *)

OfficialAtoms == {Dot, PayloadProfile, PayloadEmptyPfd, PayloadNoPfd, NotBase64}

\* the tokens of at most n atoms
OfficialTokens(n) == UNION {[1..m -> OfficialAtoms] : m \in 0..n}

InitOfficial ==
    /\ now = 0
    /\ users = TwoAccounts
    /\ textures = << >>
    /\ texMaps = << >>
    /\ tokens = << >>
    /\ nextTok = 0
    /\ sessions = << >>
    /\ limiters = << >>
    /\ regTokens = << >>
    /\ nextReg = 0
    /\ smtpEnabled = FALSE
    /\ ups = << >>
    /\ requestCounter = 0
    /\ pool = NewUpstreamServicePool
    /\ keyPairCh = << >>
    /\ profileKeyCache = << >>
    /\ nextKey = 0
    /\ cachedPubKey = NilKeys
    /\ inflight = << >>
    /\ \E t \in OfficialTokens(MaxPieces) :
          ret = Ret("Bearer", [accessToken |-> t], NoError, 0)

\* the request that carries the bearer token
ProfileKeyBearer ==
    /\ ret.op = "Bearer"
    /\ ProfileKeyOfficial(ret.in.accessToken)

NextOfficial ==
    \/ ProfileKeyBearer
    \/ nextKey < 1 /\ genKeyPair
    \/ \E slot \in 1..MaxInflight : ProfileKeyReceive(slot)

SpecOfficial == InitOfficial /\ [][NextOfficial]_vars

(* ---- C36 ---- *)
\* the positions of the separators of a token
C36_Dots(t) == {i \in 1..Len(t) : t[i] = Dot}

\* the segment between the first two separators
C36_Middle(t) ==
    LET first == LeastOf(C36_Dots(t))
        second == LeastOf(C36_Dots(t) \ {first})
    IN  SubSeq(t, first + 1, second - 1)

\* the call has returned an error result
C36_ErrorResult(r) == r.op = "ProfileKey" /\ r.err # NoError /\ r.err.code # "panic"

\* C36: a token with fewer than two separators, and a token whose decoded
\* payload has an absent or empty pfd array, gets an error result; an id is
\* obtained only from a token with at least two separators whose middle
\* segment decodes to a payload with a non-empty pfd array
C36_ParseOutcome ==
    [][(ret.op = "Bearer" /\ ret'.op # "Bearer") =>
         LET t == ret.in.accessToken
             two == Cardinality(C36_Dots(t)) >= 2
         IN  /\ ~two => C36_ErrorResult(ret')
             /\ (/\ two
                 /\ DecodePayload(C36_Middle(t)).err = NilErr
                 /\ DecodePayload(C36_Middle(t)).Pfd = << >>) => C36_ErrorResult(ret')
             /\ ret'.err = NoError
                => /\ two
                   /\ DecodePayload(C36_Middle(t)).err = NilErr
                   /\ DecodePayload(C36_Middle(t)).Pfd # << >>]_vars

\* a token with exactly one separator has ended the request in a panic
C36_Witness ==
    /\ ret.op = "ProfileKey"
    /\ ret.err.code = "panic"
    /\ Cardinality(C36_Dots(ret.in.accessToken)) = 1

\* a three-part token with a profile in its payload has been given a keypair
C36_WitnessIssued ==
    /\ ret.op = "ProfileKey"
    /\ ret.err = NoError
    /\ ret.out.profileId = 3
    /\ Cardinality(C36_Dots(ret.in.accessToken)) >= 2

-----------------------------------------------------------------------------
(* Profile keys for a local account and for an official one, requests      *)
(* served concurrently, the producer running ahead                         *)

\* a three-part official token of account 3
OfficialToken == <<PayloadNoPfd, Dot, PayloadProfile, Dot, PayloadNoPfd>>

NextKeys ==
    \/ /\ nextTok = 0
       /\ Login("alice@example.com", "secret1", NilClient)
    \/ \E a \in 1..2 : ProfileKey(a)
    \/ ProfileKeyOfficial(OfficialToken)
    \/ \E slot \in 1..MaxInflight : ProfileKeyReceive(slot)
    \/ genKeyPair

SpecKeys == InitAccounts /\ [][NextKeys]_vars

(* ---- C34 ---- *)
\* C34: once a keypair has been issued for an account id, every ProfileKey
\* request for that id is answered with that keypair, also when the first
\* requests for the id run concurrently: a request that returns a keypair
\* for an id with a cached keypair returns the cached one
C34_OneKeyPairPerAccount ==
    [][(/\ nextKey' = nextKey
        /\ ret'.op = "ProfileKey"
        /\ ret'.err = NoError
        /\ ret'.out.profileId \in DOMAIN profileKeyCache)
       => ret'.out.keyPair = profileKeyCache[ret'.out.profileId]]_vars

\* two keypairs have been taken from the queue and only one account has
\* ever asked: two requests for it were answered with different keypairs
C34_Witness ==
    /\ ret.op = "ProfileKey"
    /\ ret.err = NoError
    /\ inflight = << >>
    /\ DOMAIN profileKeyCache = {1}
    /\ nextKey - Len(keyPairCh) = 2

(* ---- C40 ---- *)
\* the keypairs of a queue or a cache
C40_Range(f) == {f[x] : x \in DOMAIN f}

\* C40: a keypair goes to at most one request and is cached for one account
\* id only, so two account ids never hold the same keypair, and the queue
\* never holds more than 100 keypairs
C40_KeyPairsNotShared ==
    /\ [](/\ Len(keyPairCh) <= 100
          /\ \A i, j \in DOMAIN keyPairCh : i # j => keyPairCh[i] # keyPairCh[j]
          /\ C40_Range(keyPairCh) \cap C40_Range(profileKeyCache) = {}
          /\ \A a, b \in DOMAIN profileKeyCache :
                a # b => profileKeyCache[a] # profileKeyCache[b])
    /\ [][(keyPairCh # << >> /\ keyPairCh' = Tail(keyPairCh))
            => /\ ret'.op = "ProfileKey"
               /\ ret'.out.keyPair = Head(keyPairCh)
               /\ ret'.out.keyPair \notin C40_Range(profileKeyCache)
               /\ \A a \in DOMAIN profileKeyCache' :
                     profileKeyCache'[a] = ret'.out.keyPair => a = ret'.out.profileId]_vars

\* the queue is full and two accounts hold keypairs
C40_Witness ==
    /\ Len(keyPairCh) = KeyPairCapacity
    /\ DOMAIN profileKeyCache = {1, 3}
    /\ profileKeyCache[1] # profileKeyCache[3]

-----------------------------------------------------------------------------
(* Registration requests of every shape *)

\* the display names the official name lookup resolves
OfficialNames == {"Carol"}
SignupEmails == Emails \cup {"not-an-email"}
SignupPasswords == {"secret1", "12345"}
SignupNames == Names \cup OfficialNames \cup {"A"}

\* no account yet, the registration-token service on or off, the federation
\* configured or in no-upstream mode
InitSignup ==
    /\ InitCaches
    /\ users = << >>
    /\ smtpEnabled \in BOOLEAN
    /\ ups \in {<< >>, [id \in UpstreamIds |-> NewUpstreamState]}

NextSignup ==
    \E e \in SignupEmails, p \in SignupPasswords, n \in SignupNames :
        Register(e, p, n, "1.2.3.4", n \in OfficialNames)

SpecSignup == InitSignup /\ [][NextSignup]_vars

(* ---- C35 ---- *)
\* C35: Register reports the first applicable failure in a fixed order: the
\* email is already registered ("email exist"), the display name is used by a
\* local account ("profileName exist"), the display name resolves on the
\* official lookup ("profileName duplicate", whatever the federation
\* configuration), then a format violation (400); a request that fails creates
\* no account and sends no email, and a request with no failure succeeds.
C35_Expected(in) ==
    IF \E i \in DOMAIN users : users[i].Email = in.username
    THEN NewForbiddenOperationError("email exist")
    ELSE IF \E i \in DOMAIN users : users[i].ProfileName = in.profileName
    THEN NewForbiddenOperationError("profileName exist")
    ELSE IF in.profileName \in OfficialNames
    THEN NewForbiddenOperationError("profileName duplicate")
    ELSE IF \/ in.username = "not-an-email"
            \/ in.password = "12345"
            \/ in.profileName = "A"
    THEN NewIllegalArgumentError(
           "bad format(valid email, password longer than 5, profileName longer than 1)")
    ELSE NoError

C35_RegisterFailureOrder ==
    [][ret'.op = "Register" =>
          /\ ret'.err = C35_Expected(ret'.in)
          /\ ret'.err # NoError =>
                /\ users' = users
                /\ regTokens' = regTokens
                /\ nextReg' = nextReg
                /\ limiters' = limiters
          /\ ret'.err = NoError => Len(users') = Len(users) + 1]_vars

\* with the federation in no-upstream mode and an account registered, a request
\* whose name resolves officially and whose password is too short has been
\* refused as a duplicate name
C35_Witness ==
    /\ ups = << >>
    /\ Len(users) = 1
    /\ ret.op = "Register"
    /\ ret.in.profileName \in OfficialNames
    /\ ret.in.password = "12345"
    /\ ret.in.username \notin {users[i].Email : i \in DOMAIN users}
    /\ ret.err = NewForbiddenOperationError("profileName duplicate")

\* a request with a registered email, a locally used name and a short password
\* has been refused for the email
C35_WitnessEmail ==
    /\ ret.op = "Register"
    /\ ret.err = NewForbiddenOperationError("email exist")
    /\ ret.in.password = "12345"
    /\ \E i \in DOMAIN users : users[i].ProfileName = ret.in.profileName

\* a request with a fresh email and name has been refused for its format
C35_WitnessFormat ==
    /\ ret.op = "Register"
    /\ ret.err.status = 400
    /\ Len(users) = 1

-----------------------------------------------------------------------------
(* A join session next to the operations that remove or rewrite its token *)

KeptTokens == 1..2
KeptInstants == {1, SessionTtl, SessionTtl + 1}

NextKept ==
    \/ /\ nextTok = 0
       /\ Login("alice@example.com", "secret1", NilClient)
    \/ \E a \in KeptTokens :
          JoinServer(a, "S", UnsignedString(1), "1.2.3.4", NoCalls, NoCalls)
    \/ \E n \in {"Alice", "Alicia"}, ip \in {"", "1.2.3.4", "9.9.9.9"} :
          HasJoinedServer("S", n, ip, NoCalls, NoCalls)
    \/ \E a \in KeptTokens : Invalidate(a)
    \/ Signout("alice@example.com", "secret1")
    \/ \E a \in KeptTokens :
          Refresh(a, NilClient, FALSE) /\ nextTok' <= Cardinality(KeptTokens)
    \/ \E a \in KeptTokens : ChangeProfile(a, NilClient, "Alicia", FALSE)
    \/ Tick(KeptInstants)

SpecKept == InitAccounts /\ [][NextKept]_vars

(* ---- C37 ---- *)
\* C37: a join session holds its own copy of the token. A successful JoinServer
\* with a cached token records that token as it is at that moment, with the
\* caller's IP and the time; Invalidate, Signout, Refresh and a rename leave the
\* recorded session (and the textures it answers with) as it was; and
\* HasJoinedServer with the recorded name and IP confirms the session while no
\* more than 30 seconds have passed since the join, whether or not the token is
\* still cached.
C37_SessionKeepsItsToken ==
    [][/\ (/\ ret'.op = "JoinServer"
           /\ ret'.err = NoError
           /\ ret'.in.accessToken \in DOMAIN tokens) =>
              sessions'[ret'.in.serverId] =
                  [ServerId |-> ret'.in.serverId, Token |-> tokens[ret'.in.accessToken],
                   Ip |-> ret'.in.ip, createAt |-> now]
       /\ ret'.op \in {"Invalidate", "Signout", "Refresh", "ChangeProfile"} =>
              /\ sessions' = sessions
              /\ \A s \in DOMAIN sessions :
                    LET ref == sessions[s].Token.SelectedProfile.Textures IN
                    /\ ref \in DOMAIN texMaps'
                    /\ texMaps'[ref] = texMaps[ref]
       /\ (/\ ret'.op = "HasJoinedServer"
           /\ ret'.in.serverId \in DOMAIN sessions
           /\ now - sessions[ret'.in.serverId].createAt <= 30
           /\ ret'.in.username = sessions[ret'.in.serverId].Token.SelectedProfile.Name
           /\ ret'.in.ip = sessions[ret'.in.serverId].Ip) =>
              /\ ret'.err = NoError
              /\ ret'.out.name = ret'.in.username
              /\ ret'.out.id =
                    UnsignedString(sessions[ret'.in.serverId].Token.SelectedProfile.Id)
              /\ sessions' = sessions]_vars

\* thirty seconds after the join, with the joining token invalidated and the
\* profile renamed since, the session has been confirmed under the name it was
\* joined with
C37_Witness ==
    /\ ret.op = "HasJoinedServer"
    /\ ret.err = NoError
    /\ ret.in.username = "Alice"
    /\ ret.in.ip = "1.2.3.4"
    /\ "S" \in DOMAIN sessions
    /\ now - sessions["S"].createAt = 30
    /\ tokens = << >>
    /\ users[1].ProfileName = "Alicia"

\* the joining token has been replaced by Refresh and the session confirmed
C37_WitnessRefresh ==
    /\ ret.op = "HasJoinedServer"
    /\ ret.err = NoError
    /\ "S" \in DOMAIN sessions
    /\ sessions["S"].Token.AccessToken = 1
    /\ DOMAIN tokens = {2}

-----------------------------------------------------------------------------
(* homeRouterImpl.PublicKeys *)

\* homeRouterImpl.myPubKey
MyPubKey == "myPubKey"

\* upstreamService.GetPublicKeys as the router sees it:
\* [counter, pool, ups, keys, ok], keys being the merged upstream key lists
\* (a body stands for the keys it lists)
UpstreamPublicKeys(calls, q) ==
    LET r == UpstreamCollect(calls, q) IN
    IF degradedMode
    THEN [counter |-> requestCounter, pool |-> pool, ups |-> ups, keys |-> {}, ok |-> FALSE]
    ELSE [counter |-> r.counter, pool |-> r.pool, ups |-> r.ups,
          keys |-> IF r.err = NilErr THEN r.out ELSE {},
          ok |-> r.err = NilErr /\ r.out # {}]

\* the answer built from the upstream's keys: each list is the upstream keys (in
\* the order the merge left them) followed by the server's own key
BuildPublicKeys(fetched) ==
    LET upstreamKeys == IF fetched.ok THEN fetched.keys ELSE {} IN
    [ProfilePropertyKeys |-> <<upstreamKeys, MyPubKey>>,
     PlayerCertificateKeys |-> <<upstreamKeys, MyPubKey>>]

\* PublicKeys up to its response: answered from cachedPubKey when that is set,
\* else computed, with the assignment to cachedPubKey still to come
PublicKeys(calls, q) ==
    LET in == [calls |-> calls, order |-> q]
        fetched == UpstreamPublicKeys(calls, q)
        answer == BuildPublicKeys(fetched)
    IN  /\ IF cachedPubKey # NilKeys
           THEN /\ ret' = Ret("PublicKeys", in, NoError,
                              [keys |-> cachedPubKey, computed |-> FALSE])
                /\ UNCHANGED <<inflight, upVars>>
           ELSE /\ Cardinality(DOMAIN inflight) < MaxInflight
                /\ degradedMode \/ requestCounter < MaxRequests
                /\ requestCounter' = fetched.counter
                /\ pool' = fetched.pool
                /\ ups' = fetched.ups
                /\ inflight' = StartCall("PublicKeys", "cache", in, answer)
                /\ ret' = Ret("PublicKeys", in, NoError,
                              [keys |-> answer, computed |-> TRUE])
        /\ UNCHANGED <<cachedPubKey, keyPairCh, profileKeyCache, nextKey, now, accountVars,
                       tokens, texMaps, nextTok, sessions, limiters, regVars>>

\* h.cachedPubKey = &publicKeys, after the response has been written
PublicKeysCache(slot) ==
    /\ At(slot, "PublicKeys", "cache")
    /\ cachedPubKey' = inflight[slot].local
    /\ inflight' = EndCall(slot)
    /\ UNCHANGED <<ret, keyPairCh, profileKeyCache, nextKey, now, accountVars, tokens, texMaps,
                   nextTok, sessions, limiters, regVars, upVars>>

\* what an upstream answers to a key request: one of two key lists, or a failure
PublicKeysCalls ==
    [UpstreamIds -> {HttpAnswer(200, "keysA"), HttpAnswer(200, "keysB"), HttpAnswer(500, "")}]

\* the federation configured, or in no-upstream mode
InitPublicKeys ==
    /\ InitCaches
    /\ users = TwoAccounts
    /\ smtpEnabled = FALSE
    /\ ups \in {<< >>, [id \in UpstreamIds |-> NewUpstreamState]}

NextPublicKeys ==
    \/ \E calls \in PublicKeysCalls : PublicKeys(calls, FirstOrder)
    \/ \E slot \in 1..MaxInflight : PublicKeysCache(slot)

SpecPublicKeys == InitPublicKeys /\ [][NextPublicKeys]_vars

(* ---- C39 ---- *)
\* the step is a PublicKeys request that computed its answer
C39_Computes == Cardinality(DOMAIN inflight') > Cardinality(DOMAIN inflight)

\* C39: the public-keys endpoint computes its answer at most once per process.
\* A request computes only when no answer has been computed before (none is
\* cached and none is about to be); the computed answer lists the upstream's
\* keys, if the fetch succeeded, followed by the server's own key in both
\* lists; once an answer is cached it never changes; and a request made when an
\* answer is cached returns that answer and contacts no upstream, whatever the
\* upstream would answer then.
C39_ComputedOnce ==
    [][/\ C39_Computes =>
            /\ cachedPubKey = NilKeys
            /\ inflight = << >>
            /\ ret'.out.keys.ProfilePropertyKeys[2] = MyPubKey
            /\ ret'.out.keys.PlayerCertificateKeys[2] = MyPubKey
            /\ ret'.out.keys.ProfilePropertyKeys[1] \subseteq
                  {ret'.in.calls[id].body :
                      id \in {u \in DOMAIN ups : ret'.in.calls[u].status = 200}}
       /\ cachedPubKey # NilKeys =>
            /\ cachedPubKey' = cachedPubKey
            /\ ups' = ups
            /\ requestCounter' = requestCounter
            /\ ret'.op = "PublicKeys"
            /\ ret'.out.keys = cachedPubKey]_vars

\* an answer with an upstream's keys is cached, and a request made while every
\* upstream fails has been answered with it
C39_Witness ==
    /\ cachedPubKey # NilKeys
    /\ cachedPubKey.ProfilePropertyKeys[1] # {}
    /\ inflight = << >>
    /\ ret.op = "PublicKeys"
    /\ ~ret.out.computed
    /\ ret.out.keys = cachedPubKey
    /\ \A id \in UpstreamIds : ret.in.calls[id].status = 500

\* the first fetch failed: the cached answer holds the server's own key only,
\* and a request made while the upstreams answer has been given it
C39_WitnessOwnKeyOnly ==
    /\ ups # << >>
    /\ cachedPubKey # NilKeys
    /\ cachedPubKey.ProfilePropertyKeys = <<{}, MyPubKey>>
    /\ ret.op = "PublicKeys"
    /\ ~ret.out.computed
    /\ \A id \in UpstreamIds : ret.in.calls[id].status = 200

=============================================================================
